---- MODULE Spec2Model ----
(***************************************************************************)
(* Model of the Prompt Architect pipeline (prompt_architect.py): the       *)
(* keyword-driven context extractor, the prompt assembler, the per-target  *)
(* constraint profiles and the create_architect factory.                   *)
(*                                                                         *)
(* Python strings are TLA+ strings; "k in t" is Contains(k, t); lists are  *)
(* sequences; dicts whose iteration order matters are sequences of         *)
(* <<key, value>> pairs in insertion order.                                *)
(***************************************************************************)
EXTENDS Integers, Sequences, FiniteSets, TLC

(***************************************************************************)
(* String primitives                                                       *)
(***************************************************************************)
UpperLetters == "ABCDEFGHIJKLMNOPQRSTUVWXYZ"

LowerLetters == "abcdefghijklmnopqrstuvwxyz"

DigitChars == "0123456789"

CharAt(s, i) == SubSeq(s, i, i)

CharsOf(s) == { CharAt(s, i) : i \in 1..Len(s) }

UpperSet == CharsOf(UpperLetters)

LowerSet == CharsOf(LowerLetters)

DigitSet == CharsOf(DigitChars)

\* characters matched by \s in a Python str pattern (ASCII part)
SpaceSet == {" ", "\t", "\n", "\r", "\f"}

\* characters matched by \w in a Python str pattern (ASCII part)
WordCharSet == UpperSet \cup LowerSet \cup DigitSet \cup {"_"}

IndexIn(alphabet, c) == CHOOSE i \in 1..Len(alphabet) : CharAt(alphabet, i) = c

lower_char(c) == IF c \in UpperSet THEN CharAt(LowerLetters, IndexIn(UpperLetters, c)) ELSE c

upper_char(c) == IF c \in LowerSet THEN CharAt(UpperLetters, IndexIn(LowerLetters, c)) ELSE c

RECURSIVE lower_range(_, _, _)
\* the characters lo..hi of s, each lower-cased (the range is halved to
\* keep the evaluation shallow)
lower_range(s, lo, hi) ==
    IF lo > hi THEN ""
    ELSE IF lo = hi THEN lower_char(CharAt(s, lo))
    ELSE LET mid == (lo + hi) \div 2
         IN lower_range(s, lo, mid) \o lower_range(s, mid + 1, hi)

\* str.lower()
lower(s) == lower_range(s, 1, Len(s))

\* the character str.title() puts at position i: a cased character is
\* upper-cased when the character before it is uncased, lower-cased otherwise
title_char(s, i) ==
    LET prevCased == i > 1 /\ CharAt(s, i - 1) \in UpperSet \cup LowerSet
    IN IF prevCased THEN lower_char(CharAt(s, i)) ELSE upper_char(CharAt(s, i))

RECURSIVE title_range(_, _, _)
title_range(s, lo, hi) ==
    IF lo > hi THEN ""
    ELSE IF lo = hi THEN title_char(s, lo)
    ELSE LET mid == (lo + hi) \div 2
         IN title_range(s, lo, mid) \o title_range(s, mid + 1, hi)

\* str.title()
title(s) == title_range(s, 1, Len(s))

RECURSIVE replace_range(_, _, _, _, _)
replace_range(s, old, new, lo, hi) ==
    IF lo > hi THEN ""
    ELSE IF lo = hi THEN (IF CharAt(s, lo) = old THEN new ELSE CharAt(s, lo))
    ELSE LET mid == (lo + hi) \div 2
         IN replace_range(s, old, new, lo, mid) \o replace_range(s, old, new, mid + 1, hi)

\* str.replace(old, new) for a one-character old
replace_char(s, old, new) == replace_range(s, old, new, 1, Len(s))

Min(S) == CHOOSE x \in S : \A y \in S : x <= y

Max(S) == CHOOSE x \in S : \A y \in S : y <= x

\* the Python test "k in t"
Contains(k, t) == \E i \in 1..(Len(t) - Len(k) + 1) : SubSeq(t, i, i + Len(k) - 1) = k

\* any(keyword in text for keyword in keywords)
any_in(keywords, text) == \E j \in 1..Len(keywords) : Contains(keywords[j], text)

RECURSIVE int_to_str(_)
\* decimal formatting of a non-negative int in an f-string
int_to_str(n) ==
    IF n < 10 THEN CharAt(DigitChars, n + 1)
    ELSE int_to_str(n \div 10) \o CharAt(DigitChars, (n % 10) + 1)

RECURSIVE join(_, _)
\* sep.join(items)
join(sep, items) ==
    IF items = <<>> THEN ""
    ELSE IF Len(items) = 1 THEN items[1]
    ELSE items[1] \o sep \o join(sep, Tail(items))

\* items[:n]
take(items, n) == SubSeq(items, 1, IF Len(items) < n THEN Len(items) ELSE n)

\* Python's None, where a string or a list is expected
None == "None"

\* Python's None, where an object is expected; also "no call made yet"
Absent == [absent |-> TRUE]

(***************************************************************************)
(* Enumerations                                                            *)
(***************************************************************************)
PromptCategory ==
    {"content_creation", "agent_development", "educational", "business",
     "technical", "creative", "analysis", "conversation"}

TargetLLM ==
    {"CLAUDE_35_SONNET", "CLAUDE_35_HAIKU", "GPT_4_TURBO", "GPT_4O", "GEMINI_PRO"}

(***************************************************************************)
(* Lexicon tables, in dict insertion order                                 *)
(***************************************************************************)
load_intent_keywords ==
    << <<"create",    <<"create", "generate", "write", "make", "produce", "build", "design">> >>,
       <<"analyze",   <<"analyze", "examine", "evaluate", "assess", "review", "study">> >>,
       <<"explain",   <<"explain", "describe", "clarify", "teach", "show", "demonstrate">> >>,
       <<"improve",   <<"improve", "optimize", "enhance", "refine", "better", "upgrade">> >>,
       <<"convert",   <<"convert", "transform", "translate", "change", "adapt", "rewrite">> >>,
       <<"summarize", <<"summarize", "condense", "brief", "overview", "abstract">> >>,
       <<"compare",   <<"compare", "contrast", "difference", "versus", "vs">> >>,
       <<"plan",      <<"plan", "strategy", "roadmap", "outline", "structure">> >> >>

load_tone_indicators ==
    << <<"professional", <<"business", "corporate", "formal", "professional", "official">> >>,
       <<"casual",       <<"casual", "friendly", "informal", "conversational", "relaxed">> >>,
       <<"academic",     <<"academic", "scholarly", "research", "scientific", "technical">> >>,
       <<"creative",     <<"creative", "artistic", "imaginative", "innovative", "original">> >>,
       <<"persuasive",   <<"persuasive", "convincing", "compelling", "influential">> >>,
       <<"educational",  <<"educational", "teaching", "learning", "tutorial", "instructional">> >> >>

category_keywords ==
    << <<"analysis",          <<"analyze", "analysis", "data", "research", "study", "report", "insights", "examine", "evaluate">> >>,
       <<"agent_development", <<"agent", "bot", "assistant", "chatbot", "ai system">> >>,
       <<"technical",         <<"code", "programming", "technical", "software", "debug", "script", "function">> >>,
       <<"educational",       <<"teach", "learn", "tutorial", "course", "lesson", "education", "explain", "instruct">> >>,
       <<"creative",          <<"story", "creative", "fiction", "poem", "narrative", "novel">> >>,
       <<"business",          <<"business", "marketing", "sales", "strategy", "proposal", "plan">> >>,
       <<"content_creation",  <<"blog", "article", "content", "post", "copy", "write">> >>,
       <<"conversation",      <<"chat", "conversation", "dialogue", "discuss">> >> >>

audiences ==
    << <<"beginners",      <<"beginner", "novice", "new", "starter", "basic">> >>,
       <<"intermediate",   <<"intermediate", "moderate", "regular">> >>,
       <<"experts",        <<"expert", "advanced", "professional", "specialist">> >>,
       <<"students",       <<"student", "learner", "pupil">> >>,
       <<"professionals",  <<"professional", "business", "corporate">> >>,
       <<"general_public", <<"everyone", "general", "public", "anyone">> >> >>

formats ==
    << <<"markdown",     <<"markdown", "md", "formatted">> >>,
       <<"json",         <<"json", "structured data">> >>,
       <<"list",         <<"list", "bullet points", "numbered">> >>,
       <<"paragraph",    <<"paragraph", "essay", "prose">> >>,
       <<"code",         <<"code", "script", "program">> >>,
       <<"table",        <<"table", "spreadsheet", "grid">> >>,
       <<"step-by-step", <<"step", "steps", "guide", "tutorial">> >> >>

basic_words == <<"simple", "basic", "easy", "beginner">>

advanced_words == <<"advanced", "complex", "expert", "sophisticated">>

stop_words ==
    {"the", "a", "an", "and", "or", "but", "in", "on", "at", "to", "for",
     "of", "with", "by", "from", "as", "is", "was", "are", "were", "be",
     "been", "being", "have", "has", "had", "do", "does", "did", "will",
     "would", "should", "could", "may", "might", "must", "can", "i", "you",
     "he", "she", "it", "we", "they", "this", "that", "these", "those"}

\* the slice bound of "[:10]" in _extract_keywords
MaxKeywords == 10

(***************************************************************************)
(* Context extractor                                                       *)
(***************************************************************************)
\* sum(1 for keyword in keywords if keyword in text_lower)
score_of(keywords, text_lower) ==
    Cardinality({ j \in 1..Len(keywords) : Contains(keywords[j], text_lower) })

RECURSIVE intent_scores_from(_, _, _)
\* the dict intent_scores: the intents with a positive score, in table order
intent_scores_from(table, k, text_lower) ==
    IF k > Len(table) THEN <<>>
    ELSE LET score == score_of(table[k][2], text_lower)
         IN (IF score > 0 THEN << <<table[k][1], score>> >> ELSE <<>>)
            \o intent_scores_from(table, k + 1, text_lower)

RECURSIVE max_key_last(_, _)
\* max_key with ">=" for ">": among equal scores the last key wins
max_key_last(scores, best) ==
    IF scores = <<>> THEN best[1]
    ELSE max_key_last(Tail(scores), IF Head(scores)[2] >= best[2] THEN Head(scores) ELSE best)

RECURSIVE max_key(_, _)
\* max(d, key=d.get): the first key, in iteration order, whose value is
\* not exceeded by a later one
max_key(scores, best) ==
    IF scores = <<>> THEN best[1]
    ELSE max_key(Tail(scores), IF Head(scores)[2] > best[2] THEN Head(scores) ELSE best)

detect_intent(intent_keywords, text) ==
    LET text_lower == lower(text)
        intent_scores == intent_scores_from(intent_keywords, 1, text_lower)
    IN IF intent_scores # <<>>
       THEN max_key(Tail(intent_scores), Head(intent_scores))
       ELSE "general_assistance"

RECURSIVE first_match_last(_, _, _, _)
\* first_match that goes on scanning after a hit: the last label that hits
first_match_last(table, k, text_lower, default) ==
    IF k > Len(table) THEN default
    ELSE IF any_in(table[k][2], text_lower)
    THEN first_match_last(table, k + 1, text_lower, table[k][1])
    ELSE first_match_last(table, k + 1, text_lower, default)

RECURSIVE first_match(_, _, _, _)
\* for label, keywords in table.items(): if any(...): return label
first_match(table, k, text_lower, default) ==
    IF k > Len(table) THEN default
    ELSE IF any_in(table[k][2], text_lower) THEN table[k][1]
    ELSE first_match(table, k + 1, text_lower, default)

\* detect_category scanning the categories in the declaration order of the
\* PromptCategory enum instead of the priority order
detect_category_enum_order(text) ==
    LET T == category_keywords
    IN first_match(<<T[7], T[2], T[4], T[6], T[3], T[5], T[1], T[8]>>, 1, lower(text),
                   "content_creation")

detect_category(text) == first_match(category_keywords, 1, lower(text), "content_creation")

\* _detect_audience that scans the text as it was given, not lower-cased
detect_audience_case_sensitive(text) == first_match(audiences, 1, text, "general_public")

detect_audience(text) == first_match(audiences, 1, lower(text), "general_public")

detect_tone(tone_indicators, text) == first_match(tone_indicators, 1, lower(text), "professional")

detect_output_format(text) == first_match(formats, 1, lower(text), "paragraph")

RECURSIVE skip_while(_, _, _)
\* the first position at or after i whose character is not in chars
skip_while(t, i, chars) ==
    IF i <= Len(t) /\ CharAt(t, i) \in chars THEN skip_while(t, i + 1, chars) ELSE i

\* whether (\d+)\s*words? matches at position i; the greedy \d+ must take
\* the whole digit run, since what follows it is no digit
word_match_at(t, i) ==
    /\ i <= Len(t)
    /\ CharAt(t, i) \in DigitSet
    /\ LET e == skip_while(t, i, DigitSet)
           w == skip_while(t, e, SpaceSet)
       IN w + 3 <= Len(t) /\ SubSeq(t, w, w + 3) = "word"

\* word_match taking the rightmost match
word_match_last(t) ==
    IF \E i \in 1..Len(t) : word_match_at(t, i)
    THEN LET e == Max({ p \in 1..Len(t) : word_match_at(t, p) })
             i == Min({ p \in 1..e : \A r \in p..e : CharAt(t, r) \in DigitSet })
         IN SubSeq(t, i, e)
    ELSE None

\* re.search(r'(\d+)\s*words?', t): group(1) of the leftmost match, or None
word_match(t) ==
    IF \E i \in 1..Len(t) : word_match_at(t, i)
    THEN LET i == Min({ p \in 1..Len(t) : word_match_at(t, p) })
         IN SubSeq(t, i, skip_while(t, i, DigitSet) - 1)
    ELSE None

\* extract_constraints whose two length rules are separate ifs
extract_constraints_both_lengths(text) ==
    LET text_lower == lower(text)
        concise == IF Contains("short", text_lower) \/ Contains("brief", text_lower)
                   THEN <<"Keep response concise and brief">> ELSE <<>>
        detailed == IF Contains("detailed", text_lower) \/ Contains("comprehensive", text_lower)
                    THEN <<"Provide detailed and comprehensive response">> ELSE <<>>
        m == word_match(text_lower)
        words == IF m # None
                 THEN <<"Limit response to approximately " \o m \o " words">>
                 ELSE <<>>
        time == IF Contains("quick", text_lower) \/ Contains("fast", text_lower)
                THEN <<"Prioritize speed and efficiency">> ELSE <<>>
        quality == IF Contains("accurate", text_lower) \/ Contains("precise", text_lower)
                   THEN <<"Ensure high accuracy and precision">> ELSE <<>>
        style == IF Contains("simple", text_lower) \/ Contains("easy", text_lower)
                 THEN <<"Use simple, easy-to-understand language">> ELSE <<>>
    IN concise \o detailed \o words \o time \o quality \o style

extract_constraints(text) ==
    LET text_lower == lower(text)
        length == IF Contains("short", text_lower) \/ Contains("brief", text_lower)
                  THEN <<"Keep response concise and brief">>
                  ELSE IF Contains("detailed", text_lower) \/ Contains("comprehensive", text_lower)
                  THEN <<"Provide detailed and comprehensive response">>
                  ELSE <<>>
        m == word_match(text_lower)
        words == IF m # None
                 THEN <<"Limit response to approximately " \o m \o " words">>
                 ELSE <<>>
        time == IF Contains("quick", text_lower) \/ Contains("fast", text_lower)
                THEN <<"Prioritize speed and efficiency">> ELSE <<>>
        quality == IF Contains("accurate", text_lower) \/ Contains("precise", text_lower)
                   THEN <<"Ensure high accuracy and precision">> ELSE <<>>
        style == IF Contains("simple", text_lower) \/ Contains("easy", text_lower)
                 THEN <<"Use simple, easy-to-understand language">> ELSE <<>>
    IN length \o words \o time \o quality \o style

\* \b at the gap before position i: exactly one neighbour is a \w character
word_boundary(t, i) ==
    LET before == i > 1 /\ CharAt(t, i - 1) \in WordCharSet
        after == i <= Len(t) /\ CharAt(t, i) \in WordCharSet
    IN before # after

\* the end of the match of \b[a-z]+\b starting at p, or 0: the longest run
\* of a-z from p that ends at a word boundary
token_end(t, p) ==
    IF ~(p <= Len(t) /\ word_boundary(t, p) /\ CharAt(t, p) \in LowerSet) THEN 0
    ELSE LET run == skip_while(t, p, LowerSet) - 1
             ends == { e \in p..run : word_boundary(t, e + 1) }
         IN IF ends = {} THEN 0 ELSE Max(ends)

RECURSIVE findall_words(_, _)
\* re.findall(r'\b[a-z]+\b', t), scanning from position p: the leftmost
\* match at or after p, then the scan goes on behind it
findall_words(t, p) ==
    LET starts == { q \in p..Len(t) : token_end(t, q) # 0 }
    IN IF starts = {} THEN <<>>
       ELSE LET q == Min(starts)
                e == token_end(t, q)
            IN <<SubSeq(t, q, e)>> \o findall_words(t, e + 1)

RECURSIVE dedupe(_, _)
\* list(dict.fromkeys(items)): first occurrences, in order
dedupe(items, seen) ==
    IF items = <<>> THEN <<>>
    ELSE IF Head(items) \in seen THEN dedupe(Tail(items), seen)
    ELSE <<Head(items)>> \o dedupe(Tail(items), seen \cup {Head(items)})

\* extract_keywords without the [:10] slice
extract_keywords_unbounded(text) ==
    LET words == findall_words(lower(text), 1)
        keywords == SelectSeq(words, LAMBDA word : word \notin stop_words /\ Len(word) > 3)
    IN dedupe(keywords, {})

extract_keywords(text) ==
    LET words == findall_words(lower(text), 1)
        keywords == SelectSeq(words, LAMBDA word : word \notin stop_words /\ Len(word) > 3)
    IN take(dedupe(keywords, {}), MaxKeywords)

\* determine_complexity with "basic" in the final else branch
determine_complexity_basic_default(text) ==
    LET text_lower == lower(text)
    IN IF any_in(basic_words, text_lower) THEN "basic"
       ELSE IF any_in(advanced_words, text_lower) THEN "advanced"
       ELSE "basic"

\* determine_complexity that looks for the advanced cues first
determine_complexity_advanced_first(text) ==
    LET text_lower == lower(text)
    IN IF any_in(advanced_words, text_lower) THEN "advanced"
       ELSE IF any_in(basic_words, text_lower) THEN "basic"
       ELSE "intermediate"

determine_complexity(text) ==
    LET text_lower == lower(text)
    IN IF any_in(basic_words, text_lower) THEN "basic"
       ELSE IF any_in(advanced_words, text_lower) THEN "advanced"
       ELSE "intermediate"

\* self is the instance record: target_llm, intent_keywords, tone_indicators
extract_context(self, raw) ==
    [ raw_input        |-> raw,
      intent           |-> detect_intent(self.intent_keywords, raw),
      category         |-> detect_category(raw),
      target_audience  |-> detect_audience(raw),
      tone             |-> detect_tone(self.tone_indicators, raw),
      output_format    |-> detect_output_format(raw),
      constraints      |-> extract_constraints(raw),
      keywords         |-> extract_keywords(raw),
      complexity_level |-> determine_complexity(raw) ]

(***************************************************************************)
(* Prompt assembler                                                        *)
(***************************************************************************)
RECURSIVE dict_get(_, _, _)
\* d.get(key, default) for a dict given as <<key, value>> pairs
dict_get(d, key, default) ==
    IF d = <<>> THEN default
    ELSE IF Head(d)[1] = key THEN Head(d)[2]
    ELSE dict_get(Tail(d), key, default)

\* key in d
dict_has(d, key) == \E k \in 1..Len(d) : d[k][1] = key

role_templates ==
    << <<"content_creation",  "You are an expert content creator and writer">>,
       <<"agent_development", "You are an advanced AI agent developer and system architect">>,
       <<"educational",       "You are an experienced educator and instructional designer">>,
       <<"business",          "You are a seasoned business consultant and strategist">>,
       <<"technical",         "You are a senior technical expert and software engineer">>,
       <<"creative",          "You are a creative professional and storyteller">>,
       <<"analysis",          "You are a data analyst and research specialist">>,
       <<"conversation",      "You are a helpful and engaging conversational assistant">> >>

tone_modifiers ==
    << <<"professional", "with a professional and polished communication style">>,
       <<"casual",       "with a friendly and approachable demeanor">>,
       <<"academic",     "with strong academic and research credentials">>,
       <<"creative",     "with exceptional creative and innovative thinking abilities">>,
       <<"persuasive",   "with excellent persuasion and influence skills">>,
       <<"educational",  "with proven teaching and mentoring capabilities">> >>

\* generate_role_definition that names the first 5 keywords
generate_role_definition_five(context) ==
    LET base_role == dict_get(role_templates, context.category, "You are a knowledgeable AI assistant")
        specialization == IF context.keywords # <<>>
                          THEN " specializing in " \o join(", ", take(context.keywords, 5))
                          ELSE ""
        modifier == IF dict_has(tone_modifiers, context.tone)
                    THEN ", " \o dict_get(tone_modifiers, context.tone, "")
                    ELSE ""
    IN base_role \o specialization \o modifier \o "."

generate_role_definition(context) ==
    LET base_role == dict_get(role_templates, context.category, "You are a knowledgeable AI assistant")
        specialization == IF context.keywords # <<>>
                          THEN " specializing in " \o join(", ", take(context.keywords, 3))
                          ELSE ""
        modifier == IF dict_has(tone_modifiers, context.tone)
                    THEN ", " \o dict_get(tone_modifiers, context.tone, "")
                    ELSE ""
    IN base_role \o specialization \o modifier \o "."

intent_instructions(context) ==
    << <<"create",    "Create " \o context.output_format \o " content that addresses the user's request">>,
       <<"analyze",   "Conduct a thorough analysis of the subject matter">>,
       <<"explain",   "Provide a clear and comprehensive explanation">>,
       <<"improve",   "Identify areas for improvement and provide actionable recommendations">>,
       <<"convert",   "Transform the content while maintaining core meaning and value">>,
       <<"summarize", "Distill the key points into a concise summary">>,
       <<"compare",   "Conduct a detailed comparison highlighting similarities and differences">>,
       <<"plan",      "Develop a structured plan with clear steps and milestones">> >>

audience_instructions ==
    << <<"beginners",      "Explain concepts in simple terms suitable for beginners with no prior knowledge">>,
       <<"intermediate",   "Provide balanced explanations assuming moderate familiarity with the topic">>,
       <<"experts",        "Use technical terminology and advanced concepts appropriate for experts">>,
       <<"students",       "Structure content to facilitate learning and retention">>,
       <<"professionals",  "Focus on practical applications and professional relevance">>,
       <<"general_public", "Make content accessible and engaging for a broad audience">> >>

format_instructions ==
    << <<"markdown",     "Format output using proper markdown syntax with headers, lists, and emphasis">>,
       <<"json",         "Structure output as valid JSON with clear key-value pairs">>,
       <<"list",         "Present information as organized bullet points or numbered lists">>,
       <<"paragraph",    "Write in well-structured paragraphs with smooth transitions">>,
       <<"code",         "Provide clean, well-commented code with best practices">>,
       <<"table",        "Organize information in a clear tabular format">>,
       <<"step-by-step", "Present information as sequential, actionable steps">> >>

\* generate_instructions appending the coverage instruction unconditionally
generate_instructions_always_coverage(context) ==
    <<dict_get(intent_instructions(context), context.intent,
               "Address the user's request comprehensively"),
      dict_get(audience_instructions, context.target_audience, "Tailor content to the audience"),
      IF context.complexity_level = "basic"
      THEN "Break down complex ideas into simple, digestible components"
      ELSE IF context.complexity_level = "advanced"
      THEN "Explore nuanced aspects and advanced implications"
      ELSE "Balance depth with accessibility",
      dict_get(format_instructions, context.output_format, "Format output appropriately"),
      "Ensure coverage of key topics: " \o join(", ", take(context.keywords, 5))>>

\* generate_instructions appending the audience instruction before the
\* intent instruction
generate_instructions_audience_first(context) ==
    <<dict_get(audience_instructions, context.target_audience, "Tailor content to the audience"),
      dict_get(intent_instructions(context), context.intent,
               "Address the user's request comprehensively"),
      IF context.complexity_level = "basic"
      THEN "Break down complex ideas into simple, digestible components"
      ELSE IF context.complexity_level = "advanced"
      THEN "Explore nuanced aspects and advanced implications"
      ELSE "Balance depth with accessibility",
      dict_get(format_instructions, context.output_format, "Format output appropriately")>>
    \o (IF context.keywords # <<>>
        THEN <<"Ensure coverage of key topics: " \o join(", ", take(context.keywords, 5))>>
        ELSE <<>>)

generate_instructions(context) ==
    LET primary == dict_get(intent_instructions(context), context.intent,
                            "Address the user's request comprehensively")
        audience == dict_get(audience_instructions, context.target_audience,
                             "Tailor content to the audience")
        complexity == IF context.complexity_level = "basic"
                      THEN "Break down complex ideas into simple, digestible components"
                      ELSE IF context.complexity_level = "advanced"
                      THEN "Explore nuanced aspects and advanced implications"
                      ELSE "Balance depth with accessibility"
        format == dict_get(format_instructions, context.output_format, "Format output appropriately")
        coverage == IF context.keywords # <<>>
                    THEN <<"Ensure coverage of key topics: " \o join(", ", take(context.keywords, 5))>>
                    ELSE <<>>
    IN <<primary, audience, complexity, format>> \o coverage

\* the constraints added for the instance's target_llm
llm_constraints(target_llm) ==
    IF target_llm = "CLAUDE_35_SONNET"
    THEN <<"Prioritize long-form reasoning and detailed explanations",
           "Follow instructions precisely and maintain structural consistency",
           "Minimize hallucinations by grounding responses in provided context">>
    ELSE IF target_llm \in {"GPT_4_TURBO", "GPT_4O"}
    THEN <<"Balance creativity with accuracy",
           "Maintain coherent narrative flow">>
    ELSE <<>>

universal_constraints ==
    <<"Maintain factual accuracy and avoid speculation without clear indication",
      "Use clear, unambiguous language",
      "Ensure logical flow and coherent structure">>

tone_constraints ==
    << <<"professional", "Maintain professional tone throughout; avoid casual language">>,
       <<"casual",       "Keep tone conversational and approachable; avoid overly formal language">>,
       <<"academic",     "Use proper citations and academic rigor; maintain scholarly tone">>,
       <<"creative",     "Embrace creative expression while maintaining clarity">>,
       <<"persuasive",   "Build compelling arguments with supporting evidence">>,
       <<"educational",  "Prioritize clarity and learning outcomes">> >>

\* generate_constraints that adds the universal and tone constraints only
\* for a target that has constraints of its own
generate_constraints_profiled_only(self, context) ==
    IF llm_constraints(self.target_llm) = <<>>
    THEN context.constraints
    ELSE context.constraints
         \o llm_constraints(self.target_llm)
         \o universal_constraints
         \o (IF dict_has(tone_constraints, context.tone)
             THEN <<dict_get(tone_constraints, context.tone, "")>>
             ELSE <<>>)

\* generate_constraints that puts the universal constraints before those
\* of the target
generate_constraints_universal_first(self, context) ==
    context.constraints
    \o universal_constraints
    \o llm_constraints(self.target_llm)
    \o (IF dict_has(tone_constraints, context.tone)
        THEN <<dict_get(tone_constraints, context.tone, "")>>
        ELSE <<>>)

generate_constraints(self, context) ==
    context.constraints
    \o llm_constraints(self.target_llm)
    \o universal_constraints
    \o (IF dict_has(tone_constraints, context.tone)
        THEN <<dict_get(tone_constraints, context.tone, "")>>
        ELSE <<>>)

universal_criteria ==
    <<"Relevance: Response directly addresses the user's request",
      "Accuracy: Information is factually correct and reliable",
      "Clarity: Content is easy to understand and well-organized",
      "Completeness: All aspects of the request are covered">>

category_criteria ==
    << <<"content_creation",  "Engagement: Content is compelling and holds reader interest">>,
       <<"agent_development", "Functionality: System design is practical and implementable">>,
       <<"educational",       "Pedagogical value: Content facilitates effective learning">>,
       <<"business",          "Actionability: Recommendations are practical and implementable">>,
       <<"technical",         "Technical accuracy: Code/solutions follow best practices">>,
       <<"creative",          "Originality: Content demonstrates creative thinking">>,
       <<"analysis",          "Depth: Analysis is thorough and insightful">>,
       <<"conversation",      "Naturalness: Responses feel natural and contextually appropriate">> >>

\* generate_quality_criteria with a tone criterion for every tone
generate_quality_criteria_any_tone(context) ==
    universal_criteria
    \o (IF dict_has(category_criteria, context.category)
        THEN <<dict_get(category_criteria, context.category, "")>>
        ELSE <<>>)
    \o (IF context.tone = "educational"
        THEN <<"Educational value: Content effectively teaches the subject matter">>
        ELSE <<"Professionalism: Tone and language are appropriate for professional context">>)

generate_quality_criteria(context) ==
    universal_criteria
    \o (IF dict_has(category_criteria, context.category)
        THEN <<dict_get(category_criteria, context.category, "")>>
        ELSE <<>>)
    \o (IF context.tone = "professional"
        THEN <<"Professionalism: Tone and language are appropriate for professional context">>
        ELSE IF context.tone = "educational"
        THEN <<"Educational value: Content effectively teaches the subject matter">>
        ELSE <<>>)

generate_examples(context) == None

RECURSIVE numbered_lines_zero_based(_, _)
\* enumerate(instructions) without its start argument: numbering from i - 1
numbered_lines_zero_based(items, i) ==
    IF items = <<>> THEN ""
    ELSE int_to_str(i - 1) \o ". " \o Head(items) \o "\n"
         \o numbered_lines_zero_based(Tail(items), i + 1)

RECURSIVE numbered_lines(_, _)
\* for i, instruction in enumerate(instructions, i): "{i}. {instruction}\n"
numbered_lines(items, i) ==
    IF items = <<>> THEN ""
    ELSE int_to_str(i) \o ". " \o Head(items) \o "\n" \o numbered_lines(Tail(items), i + 1)

RECURSIVE bullet_lines(_)
\* for item in items: "- {item}\n"
bullet_lines(items) ==
    IF items = <<>> THEN ""
    ELSE "- " \o Head(items) \o "\n" \o bullet_lines(Tail(items))

RECURSIVE example_lines(_)
\* for example in examples: "{example}\n\n"
example_lines(items) ==
    IF items = <<>> THEN ""
    ELSE Head(items) \o "\n\n" \o example_lines(Tail(items))

assemble_prompt(self, context) ==
    LET role_definition == generate_role_definition(context)
        instructions == generate_instructions(context)
        constraints == generate_constraints(self, context)
        quality_criteria == generate_quality_criteria(context)
        examples == generate_examples(context)
        full_prompt ==
            "# Role Definition\n" \o role_definition \o "\n\n# Context\n"
            \o context.raw_input \o "\n\n# Instructions\n"
            \o numbered_lines(instructions, 1)
            \o "\n# Constraints\n" \o bullet_lines(constraints)
            \o "\n# Output Format\n"
            \o title(replace_char(context.output_format, "_", " ")) \o "\n"
            \o (IF examples # None /\ examples # <<>>
                THEN "\n# Examples\n" \o example_lines(examples) ELSE "")
            \o "\n# Quality Criteria\n" \o bullet_lines(quality_criteria)
            \o "\n# Target Audience\n"
            \o title(replace_char(context.target_audience, "_", " ")) \o "\n"
            \o "\n# Tone\n" \o title(context.tone) \o "\n"
    IN [ role_definition  |-> role_definition,
         context          |-> context.raw_input,
         instructions     |-> instructions,
         constraints      |-> constraints,
         output_format    |-> context.output_format,
         examples         |-> examples,
         quality_criteria |-> quality_criteria,
         full_prompt      |-> full_prompt ]

transform(self, raw) == assemble_prompt(self, extract_context(self, raw))

(***************************************************************************)
(* Instances and the factory                                               *)
(***************************************************************************)
\* PromptArchitect.__init__ that loads no tone indicators for the GPT targets
PromptArchitect_gpt_untoned(target_llm) ==
    [ target_llm      |-> target_llm,
      intent_keywords |-> load_intent_keywords,
      tone_indicators |-> IF target_llm \in {"GPT_4_TURBO", "GPT_4O"}
                          THEN <<>> ELSE load_tone_indicators ]

\* PromptArchitect.__init__
PromptArchitect(target_llm) ==
    [ target_llm      |-> target_llm,
      intent_keywords |-> load_intent_keywords,
      tone_indicators |-> load_tone_indicators ]

llm_map ==
    << <<"claude-3.5-sonnet", "CLAUDE_35_SONNET">>,
       <<"claude-3.5-haiku",  "CLAUDE_35_HAIKU">>,
       <<"gpt-4-turbo",       "GPT_4_TURBO">>,
       <<"gpt-4o",            "GPT_4O">>,
       <<"gemini-pro",        "GEMINI_PRO">> >>

\* resolve_target falling back to the last entry of llm_map
resolve_target_last(ident) == dict_get(llm_map, ident, "GEMINI_PRO")

\* llm_map.get(target_llm, TargetLLM.CLAUDE_35_SONNET)
resolve_target(ident) == dict_get(llm_map, ident, "CLAUDE_35_SONNET")

create_architect(ident) == PromptArchitect(resolve_target(ident))

(***************************************************************************)
(* Template catalog (prompt_templates.py)                                   *)
(***************************************************************************)
template_blog_post ==
    [ name |-> "Blog Post Writer",
      category |-> "Content Creation",
      description |-> "Generate engaging blog posts on any topic",
      template |->
        "# Role Definition\n"
        \o "You are an expert content writer and blogger with years of experience creating engaging, SEO-optimized content.\n"
        \o "\n"
        \o "# Task\n"
        \o "Write a comprehensive blog post about {topic} for {audience}.\n"
        \o "\n"
        \o "# Instructions\n"
        \o "1. Create an attention-grabbing headline\n"
        \o "2. Write an engaging introduction that hooks the reader\n"
        \o "3. Develop {num_sections} main sections with clear subheadings\n"
        \o "4. Include relevant examples and data to support your points\n"
        \o "5. End with a compelling conclusion and call-to-action\n"
        \o "6. Maintain a {tone} tone throughout\n"
        \o "\n"
        \o "# Constraints\n"
        \o "- Target length: {word_count} words\n"
        \o "- Use simple, accessible language\n"
        \o "- Include actionable takeaways\n"
        \o "- Optimize for readability (short paragraphs, bullet points where appropriate)\n"
        \o "\n"
        \o "# Output Format\n"
        \o "Markdown with proper headers, emphasis, and formatting\n"
        \o "\n"
        \o "# Quality Criteria\n"
        \o "- Engagement: Content captures and maintains reader interest\n"
        \o "- Value: Provides actionable insights and useful information\n"
        \o "- Clarity: Easy to read and understand\n"
        \o "- SEO: Naturally incorporates relevant keywords\n",
      variables |->
        <<"topic",
          "audience",
          "num_sections",
          "tone",
          "word_count">>,
      example_values |->
        <<<<"topic", "artificial intelligence in healthcare">>,
          <<"audience", "healthcare professionals">>,
          <<"num_sections", "5">>,
          <<"tone", "professional yet accessible">>,
          <<"word_count", "1500">>>> ]

template_chatbot_agent ==
    [ name |-> "Chatbot Agent Developer",
      category |-> "Agent Development",
      description |-> "Design conversational AI agents with specific personalities and capabilities",
      template |->
        "# Role Definition\n"
        \o "You are an advanced AI agent developer specializing in conversational AI systems with expertise in natural language processing and user experience design.\n"
        \o "\n"
        \o "# Task\n"
        \o "Design a chatbot agent for {use_case} that serves {target_users}.\n"
        \o "\n"
        \o "# Agent Specifications\n"
        \o "- **Purpose**: {purpose}\n"
        \o "- **Personality**: {personality}\n"
        \o "- **Key Capabilities**: {capabilities}\n"
        \o "- **Tone**: {tone}\n"
        \o "\n"
        \o "# Instructions\n"
        \o "1. Define the agent's core personality and communication style\n"
        \o "2. Outline conversation flow and dialogue patterns\n"
        \o "3. Specify how the agent should handle common user intents\n"
        \o "4. Define error handling and fallback responses\n"
        \o "5. Include example conversations demonstrating the agent's capabilities\n"
        \o "6. Specify integration points and technical requirements\n"
        \o "\n"
        \o "# Constraints\n"
        \o "- Maintain consistent personality throughout all interactions\n"
        \o "- Ensure responses are helpful, accurate, and appropriate\n"
        \o "- Handle edge cases and unexpected inputs gracefully\n"
        \o "- Prioritize user experience and satisfaction\n"
        \o "\n"
        \o "# Output Format\n"
        \o "Structured document with:\n"
        \o "- Agent profile\n"
        \o "- Conversation flows\n"
        \o "- Sample dialogues\n"
        \o "- Technical specifications\n"
        \o "\n"
        \o "# Quality Criteria\n"
        \o "- Consistency: Agent maintains personality across all interactions\n"
        \o "- Helpfulness: Effectively assists users in achieving their goals\n"
        \o "- Natural language: Conversations feel natural and engaging\n"
        \o "- Robustness: Handles various inputs and edge cases appropriately\n",
      variables |->
        <<"use_case",
          "target_users",
          "purpose",
          "personality",
          "capabilities",
          "tone">>,
      example_values |->
        <<<<"use_case", "customer support">>,
          <<"target_users", "e-commerce customers">>,
          <<"purpose", "resolve customer issues and answer product questions">>,
          <<"personality", "friendly, patient, and solution-oriented">>,
          <<"capabilities", "order tracking, returns processing, product recommendations">>,
          <<"tone", "professional yet warm and approachable">>>> ]

template_tutorial_creator ==
    [ name |-> "Tutorial Creator",
      category |-> "Educational",
      description |-> "Create comprehensive tutorials and learning materials",
      template |->
        "# Role Definition\n"
        \o "You are an experienced educator and instructional designer with expertise in creating effective learning materials for {subject_area}.\n"
        \o "\n"
        \o "# Task\n"
        \o "Create a comprehensive tutorial on {topic} for {learner_level} learners.\n"
        \o "\n"
        \o "# Learning Objectives\n"
        \o "By the end of this tutorial, learners will be able to:\n"
        \o "{learning_objectives}\n"
        \o "\n"
        \o "# Instructions\n"
        \o "1. Start with prerequisites and what learners need to know beforehand\n"
        \o "2. Break down the topic into logical, sequential lessons\n"
        \o "3. For each lesson:\n"
        \o "   - Explain the concept clearly with examples\n"
        \o "   - Provide hands-on exercises or practice problems\n"
        \o "   - Include visual aids or diagrams where helpful\n"
        \o "4. Build complexity gradually from basic to advanced\n"
        \o "5. Include checkpoints to assess understanding\n"
        \o "6. Provide additional resources for further learning\n"
        \o "\n"
        \o "# Constraints\n"
        \o "- Use clear, jargon-free language (explain technical terms when necessary)\n"
        \o "- Include practical, real-world examples\n"
        \o "- Make content engaging and interactive\n"
        \o "- Ensure accessibility for diverse learning styles\n"
        \o "\n"
        \o "# Output Format\n"
        \o "Structured tutorial with:\n"
        \o "- Introduction and prerequisites\n"
        \o "- Numbered lessons with clear sections\n"
        \o "- Examples and exercises\n"
        \o "- Summary and next steps\n"
        \o "\n"
        \o "# Quality Criteria\n"
        \o "- Clarity: Concepts are explained in an easy-to-understand manner\n"
        \o "- Progression: Content builds logically from simple to complex\n"
        \o "- Engagement: Material keeps learners interested and motivated\n"
        \o "- Effectiveness: Learners can apply what they've learned\n",
      variables |->
        <<"subject_area",
          "topic",
          "learner_level",
          "learning_objectives">>,
      example_values |->
        <<<<"subject_area", "programming">>,
          <<"topic", "Python functions and modules">>,
          <<"learner_level", "beginner">>,
          <<"learning_objectives", "1. Define and call functions\n2. Use parameters and return values\n3. Import and use modules\n4. Create their own modules">>>> ]

template_business_strategy ==
    [ name |-> "Business Strategy Developer",
      category |-> "Business",
      description |-> "Develop comprehensive business strategies and plans",
      template |->
        "# Role Definition\n"
        \o "You are a seasoned business strategist and consultant with extensive experience in {industry} and proven track record of developing successful business strategies.\n"
        \o "\n"
        \o "# Task\n"
        \o "Develop a comprehensive {strategy_type} strategy for {business_description}.\n"
        \o "\n"
        \o "# Business Context\n"
        \o "- **Industry**: {industry}\n"
        \o "- **Target Market**: {target_market}\n"
        \o "- **Current Situation**: {current_situation}\n"
        \o "- **Goals**: {goals}\n"
        \o "- **Timeline**: {timeline}\n"
        \o "\n"
        \o "# Instructions\n"
        \o "1. Conduct situation analysis (SWOT or similar framework)\n"
        \o "2. Define clear, measurable objectives\n"
        \o "3. Identify key strategies and tactics to achieve objectives\n"
        \o "4. Outline implementation roadmap with milestones\n"
        \o "5. Define success metrics and KPIs\n"
        \o "6. Address potential risks and mitigation strategies\n"
        \o "7. Provide resource requirements and budget considerations\n"
        \o "\n"
        \o "# Constraints\n"
        \o "- Strategies must be realistic and achievable\n"
        \o "- Consider market conditions and competitive landscape\n"
        \o "- Align with business goals and values\n"
        \o "- Focus on actionable recommendations\n"
        \o "\n"
        \o "# Output Format\n"
        \o "Structured business strategy document with:\n"
        \o "- Executive summary\n"
        \o "- Situation analysis\n"
        \o "- Strategic objectives\n"
        \o "- Action plans\n"
        \o "- Metrics and evaluation\n"
        \o "\n"
        \o "# Quality Criteria\n"
        \o "- Feasibility: Strategies are realistic and implementable\n"
        \o "- Alignment: Plans align with business goals and resources\n"
        \o "- Clarity: Recommendations are clear and actionable\n"
        \o "- Impact: Strategies have potential for significant positive impact\n",
      variables |->
        <<"industry",
          "strategy_type",
          "business_description",
          "target_market",
          "current_situation",
          "goals",
          "timeline">>,
      example_values |->
        <<<<"industry", "sustainable fashion">>,
          <<"strategy_type", "market entry">>,
          <<"business_description", "eco-friendly clothing brand targeting millennials">>,
          <<"target_market", "environmentally conscious consumers aged 25-40">>,
          <<"current_situation", "established online presence, planning retail expansion">>,
          <<"goals", "open 5 physical stores in major cities within 18 months">>,
          <<"timeline", "18 months">>>> ]

template_code_generator ==
    [ name |-> "Code Generator",
      category |-> "Technical",
      description |-> "Generate clean, well-documented code for specific tasks",
      template |->
        "# Role Definition\n"
        \o "You are a senior software engineer with expertise in {programming_language} and {domain}, known for writing clean, efficient, and well-documented code.\n"
        \o "\n"
        \o "# Task\n"
        \o "Write {code_type} in {programming_language} that {functionality}.\n"
        \o "\n"
        \o "# Requirements\n"
        \o "{requirements}\n"
        \o "\n"
        \o "# Instructions\n"
        \o "1. Write clean, readable code following {programming_language} best practices\n"
        \o "2. Include comprehensive comments explaining complex logic\n"
        \o "3. Implement proper error handling\n"
        \o "4. Follow {coding_standard} coding standards\n"
        \o "5. Include docstrings/documentation for functions and classes\n"
        \o "6. Provide usage examples\n"
        \o "7. Consider edge cases and input validation\n"
        \o "\n"
        \o "# Constraints\n"
        \o "- Code must be production-ready and maintainable\n"
        \o "- Follow DRY (Don't Repeat Yourself) principle\n"
        \o "- Optimize for readability over cleverness\n"
        \o "- Include type hints/annotations where applicable\n"
        \o "- No external dependencies unless specified\n"
        \o "\n"
        \o "# Output Format\n"
        \o "- Complete, runnable code\n"
        \o "- Inline comments for complex sections\n"
        \o "- Documentation/docstrings\n"
        \o "- Usage examples\n"
        \o "\n"
        \o "# Quality Criteria\n"
        \o "- Correctness: Code works as intended and handles edge cases\n"
        \o "- Readability: Code is easy to understand and maintain\n"
        \o "- Efficiency: Code performs well and uses resources appropriately\n"
        \o "- Best practices: Follows language conventions and design patterns\n",
      variables |->
        <<"programming_language",
          "domain",
          "code_type",
          "functionality",
          "requirements",
          "coding_standard">>,
      example_values |->
        <<<<"programming_language", "Python">>,
          <<"domain", "data processing">>,
          <<"code_type", "a class">>,
          <<"functionality", "reads CSV files, performs data validation, and generates summary statistics">>,
          <<"requirements", "- Support multiple CSV formats\n- Validate data types\n- Handle missing values\n- Generate mean, median, mode statistics\n- Export results to JSON">>,
          <<"coding_standard", "PEP 8">>>> ]

template_data_analyst ==
    [ name |-> "Data Analysis Expert",
      category |-> "Analysis",
      description |-> "Perform comprehensive data analysis and generate insights",
      template |->
        "# Role Definition\n"
        \o "You are a data analyst and research specialist with expertise in {analysis_domain} and strong skills in statistical analysis and data interpretation.\n"
        \o "\n"
        \o "# Task\n"
        \o "Analyze {data_description} and provide comprehensive insights about {analysis_focus}.\n"
        \o "\n"
        \o "# Analysis Requirements\n"
        \o "- **Data Source**: {data_source}\n"
        \o "- **Key Questions**: {key_questions}\n"
        \o "- **Analysis Type**: {analysis_type}\n"
        \o "- **Deliverables**: {deliverables}\n"
        \o "\n"
        \o "# Instructions\n"
        \o "1. Describe the dataset and its characteristics\n"
        \o "2. Perform exploratory data analysis\n"
        \o "3. Apply appropriate statistical methods or analytical techniques\n"
        \o "4. Identify patterns, trends, and anomalies\n"
        \o "5. Generate actionable insights and recommendations\n"
        \o "6. Visualize key findings (describe visualizations if you can't create them)\n"
        \o "7. Address limitations and potential biases\n"
        \o "\n"
        \o "# Constraints\n"
        \o "- Base conclusions on data evidence\n"
        \o "- Acknowledge uncertainty and limitations\n"
        \o "- Use appropriate statistical methods\n"
        \o "- Present findings clearly for {audience}\n"
        \o "- Avoid overgeneralization\n"
        \o "\n"
        \o "# Output Format\n"
        \o "Structured analysis report with:\n"
        \o "- Executive summary\n"
        \o "- Data description\n"
        \o "- Methodology\n"
        \o "- Findings and insights\n"
        \o "- Recommendations\n"
        \o "- Appendices (if needed)\n"
        \o "\n"
        \o "# Quality Criteria\n"
        \o "- Rigor: Analysis uses appropriate methods and is thorough\n"
        \o "- Accuracy: Findings are supported by data\n"
        \o "- Clarity: Results are presented in an understandable way\n"
        \o "- Actionability: Insights lead to practical recommendations\n",
      variables |->
        <<"analysis_domain",
          "data_description",
          "analysis_focus",
          "data_source",
          "key_questions",
          "analysis_type",
          "deliverables",
          "audience">>,
      example_values |->
        <<<<"analysis_domain", "customer behavior">>,
          <<"data_description", "6 months of e-commerce transaction data">>,
          <<"analysis_focus", "customer purchase patterns and retention">>,
          <<"data_source", "company database with 50,000 transactions">>,
          <<"key_questions", "What factors influence repeat purchases? Which customer segments are most valuable?">>,
          <<"analysis_type", "descriptive and predictive analysis">>,
          <<"deliverables", "insights report with visualizations and recommendations">>,
          <<"audience", "marketing team and executives">>>> ]

template_story_writer ==
    [ name |-> "Creative Story Writer",
      category |-> "Creative",
      description |-> "Write engaging stories and narratives",
      template |->
        "# Role Definition\n"
        \o "You are a creative writer and storyteller with expertise in {genre} and a talent for crafting compelling narratives that captivate readers.\n"
        \o "\n"
        \o "# Task\n"
        \o "Write a {story_type} in the {genre} genre about {premise}.\n"
        \o "\n"
        \o "# Story Parameters\n"
        \o "- **Setting**: {setting}\n"
        \o "- **Main Characters**: {characters}\n"
        \o "- **Tone**: {tone}\n"
        \o "- **Length**: {length}\n"
        \o "- **Target Audience**: {audience}\n"
        \o "\n"
        \o "# Instructions\n"
        \o "1. Create a compelling opening that hooks the reader\n"
        \o "2. Develop well-rounded characters with clear motivations\n"
        \o "3. Build tension and conflict throughout the narrative\n"
        \o "4. Use vivid descriptions and sensory details\n"
        \o "5. Maintain consistent pacing appropriate for the genre\n"
        \o "6. Include dialogue that reveals character and advances plot\n"
        \o "7. Craft a satisfying resolution\n"
        \o "\n"
        \o "# Constraints\n"
        \o "- Stay true to the genre conventions while being original\n"
        \o "- Maintain consistent point of view\n"
        \o "- Ensure character actions are motivated and believable\n"
        \o "- Keep the tone consistent with the target audience\n"
        \o "- Show, don't tell (use action and dialogue over exposition)\n"
        \o "\n"
        \o "# Output Format\n"
        \o "Complete narrative with:\n"
        \o "- Clear beginning, middle, and end\n"
        \o "- Proper formatting and paragraphing\n"
        \o "- Dialogue formatted correctly\n"
        \o "\n"
        \o "# Quality Criteria\n"
        \o "- Engagement: Story captures and maintains reader interest\n"
        \o "- Character development: Characters feel real and relatable\n"
        \o "- Plot coherence: Story flows logically and satisfyingly\n"
        \o "- Originality: Story offers fresh perspective or unique elements\n",
      variables |->
        <<"genre",
          "story_type",
          "premise",
          "setting",
          "characters",
          "tone",
          "length",
          "audience">>,
      example_values |->
        <<<<"genre", "science fiction">>,
          <<"story_type", "short story">>,
          <<"premise", "a scientist discovers a way to communicate with parallel universes">>,
          <<"setting", "near-future research facility">>,
          <<"characters", "Dr. Sarah Chen (protagonist), her skeptical colleague Marcus">>,
          <<"tone", "thoughtful and mysterious with moments of wonder">>,
          <<"length", "2000-3000 words">>,
          <<"audience", "adult readers who enjoy thought-provoking sci-fi">>>> ]

\* TemplateLibrary._load_templates: the dict, in insertion order
load_templates ==
    << <<"blog_post", template_blog_post>>,
       <<"chatbot_agent", template_chatbot_agent>>,
       <<"tutorial_creator", template_tutorial_creator>>,
       <<"business_strategy", template_business_strategy>>,
       <<"code_generator", template_code_generator>>,
       <<"data_analyst", template_data_analyst>>,
       <<"story_writer", template_story_writer>> >>

\* the start positions of old in s
occurrences_of(s, old) ==
    { i \in 1..(Len(s) - Len(old) + 1) : SubSeq(s, i, i + Len(old) - 1) = old }

RECURSIVE replace_from(_, _, _, _, _)
\* s from position p on, with the occurrences at or after p replaced from
\* left to right, none overlapping the one before it
replace_from(s, occ, width, new, p) ==
    LET rest == { i \in occ : i >= p }
    IN IF rest = {} THEN SubSeq(s, p, Len(s))
       ELSE LET i == Min(rest)
            IN SubSeq(s, p, i - 1) \o new \o replace_from(s, occ, width, new, i + width)

\* str_replace that replaces the first occurrence only
str_replace_first(s, old, new) ==
    LET occ == occurrences_of(s, old)
    IN IF occ = {} THEN s
       ELSE SubSeq(s, 1, Min(occ) - 1) \o new \o SubSeq(s, Min(occ) + Len(old), Len(s))

\* s.replace(old, new), old not empty
str_replace(s, old, new) ==
    replace_from(s, occurrences_of(s, old), Len(old), new, 1)

\* TemplateLibrary.__init__
TemplateLibrary == [ templates |-> load_templates ]

\* self.templates.get(template_name): the template, or Absent for Python's None
get_template(self, template_name) == dict_get(self.templates, template_name, Absent)

\* list(self.templates.keys())
list_templates(self) == [i \in 1..Len(self.templates) |-> self.templates[i][1]]

\* [t for t in self.templates.values() if t.category == category]
get_templates_by_category(self, category) ==
    LET values == [i \in 1..Len(self.templates) |-> self.templates[i][2]]
        in_category(t) == t.category = category
    IN SelectSeq(values, in_category)

RECURSIVE fill_values(_, _)
\* for var, value in values.items(): filled_prompt = filled_prompt.replace("{var}", value)
fill_values(filled_prompt, values) ==
    IF values = <<>> THEN filled_prompt
    ELSE fill_values(str_replace(filled_prompt, "{" \o Head(values)[1] \o "}", Head(values)[2]),
                     Tail(values))

\* the outcome of fill_template: the exception raised (or None) and the
\* returned string (or the exception's message)
fill_template(self, template_name, values) ==
    LET template == get_template(self, template_name)
    IN IF template = Absent
       THEN [ raised |-> "ValueError",
              value  |-> "Template '" \o template_name \o "' not found" ]
       ELSE [ raised |-> None,
              value  |-> fill_values(template.template, values) ]

\* list(set(t.category ...)): the elements; the code leaves their order to
\* the set's iteration order
get_categories(self) == { self.templates[i][2].category : i \in 1..Len(self.templates) }

(***************************************************************************)
(* State machine: instances are created by the factory and called with     *)
(* raw inputs; every call leaves its return value in "call".                *)
(***************************************************************************)
\* number of PromptArchitect instances alive at once
MaxArchitects == 1

\* number of fragments joined into one raw input
MaxFragments == 2

ArchIds == 1..MaxArchitects

SupportedIdentifiers ==
    {"claude-3.5-sonnet", "claude-3.5-haiku", "gpt-4-turbo", "gpt-4o", "gemini-pro"}

\* the identifiers handed to create_architect: the supported ones and one
\* that llm_map does not know
Identifiers == SupportedIdentifiers \cup {"unknown-model-xyz"}

\* the default identifier, one with another profile, and one that falls back
CallIdentifiers == {"claude-3.5-sonnet", "gpt-4o", "unknown-model-xyz"}

\* raw inputs of the test suite
SampleInputs ==
    {"Write a technical article about neural networks",
     "Write a casual tutorial teaching beginners about history"}

\* pieces of raw input; a raw input is some of them, in this order, joined
\* by single spaces
Fragments ==
    <<"Analyze",
      "the code",
      "write to teach",
      "Help me, HELP",
      "python3 x_ray 5word",
      "in 200  Words",
      "# Instructions",
      "brief casual plan",
      "detailed, quick and accurate",
      "\t",
      "simple tutorial for an expert",
      "Write code in Python to do machine learning with data analysis and visualization",
      "Create a customer service chatbot that handles complaints professionally">>

RECURSIVE picks_from(_, _)
\* the index sequences k..Len(Fragments), strictly increasing, of length
\* at most n
picks_from(k, n) ==
    IF n = 0 \/ k > Len(Fragments) THEN {<<>>}
    ELSE picks_from(k + 1, n)
         \cup { <<k>> \o rest : rest \in picks_from(k + 1, n - 1) }

text_of(pick) == join(" ", [i \in 1..Len(pick) |-> Fragments[pick[i]]])

Texts == { text_of(pick) : pick \in picks_from(1, MaxFragments) }

VARIABLES
    architects,   \* ArchIds -> the instance (its three attributes) or Absent
    created_for,  \* ArchIds -> the identifier given to create_architect, or None
    raw_input,    \* the raw input the caller holds
    call,         \* the last completed call: op, ident, raw, value; or Absent
    pinned,       \* an earlier transform call kept for comparison, or Absent
    template_library,  \* the module-level TemplateLibrary instance
    catalog_call,      \* the last completed catalog call, or Absent
    callers,           \* Callers -> the call that caller is in, step by step
    heap,              \* the list objects, and the context and prompt that refer to them
    session            \* st.session_state of one browser session, and the reruns made in it

\* the state of the template catalog and of its callers
catalog_vars == <<template_library, catalog_call>>

vars ==
    <<architects, created_for, raw_input, call, pinned, template_library, catalog_call,
      callers, heap, session>>

\* architect = create_architect(ident)
CreateArchitect(a, ident) ==
    /\ architects' = [architects EXCEPT ![a] = create_architect(ident)]
    /\ created_for' = [created_for EXCEPT ![a] = ident]
    /\ UNCHANGED <<raw_input, call, pinned>>
    /\ UNCHANGED <<catalog_vars, callers, heap, session>>

\* create_architect for a slot that holds no instance yet
CreateFirst(a, ident) ==
    /\ architects[a] = Absent
    /\ CreateArchitect(a, ident)

\* the caller takes up another raw input
SetInput(raw) ==
    /\ raw # raw_input
    /\ raw_input' = raw
    /\ UNCHANGED <<architects, created_for, call, pinned>>
    /\ UNCHANGED <<catalog_vars, callers, heap, session>>

\* context = architect.extract_context(raw_input)
ExtractContext(a) ==
    /\ architects[a] # Absent
    /\ call' = [ op    |-> "extract_context",
                 ident |-> created_for[a],
                 raw   |-> raw_input,
                 value |-> extract_context(architects[a], raw_input) ]
    /\ UNCHANGED <<architects, created_for, raw_input, pinned>>
    /\ UNCHANGED <<catalog_vars, callers, heap, session>>

\* architect.assemble_prompt(context), for the context the last call returned
AssemblePrompt(a) ==
    /\ architects[a] # Absent
    /\ call # Absent
    /\ call.op = "extract_context"
    /\ call' = [ op    |-> "assemble_prompt",
                 ident |-> created_for[a],
                 raw   |-> call.raw,
                 value |-> assemble_prompt(architects[a], call.value) ]
    /\ UNCHANGED <<architects, created_for, raw_input, pinned>>
    /\ UNCHANGED <<catalog_vars, callers, heap, session>>

\* Transform that also writes the instance: the call leaves target_llm at
\* the default target
Transform_retargets(a) ==
    /\ architects[a] # Absent
    /\ call' = [ op    |-> "transform",
                 ident |-> created_for[a],
                 raw   |-> raw_input,
                 value |-> transform(architects[a], raw_input) ]
    /\ architects' = [architects EXCEPT ![a].target_llm = "CLAUDE_35_SONNET"]
    /\ UNCHANGED <<created_for, raw_input, pinned>>
    /\ UNCHANGED <<catalog_vars, callers, heap, session>>

\* result = architect.transform(raw_input)
Transform(a) ==
    /\ architects[a] # Absent
    /\ call' = [ op    |-> "transform",
                 ident |-> created_for[a],
                 raw   |-> raw_input,
                 value |-> transform(architects[a], raw_input) ]
    /\ UNCHANGED <<architects, created_for, raw_input, pinned>>
    /\ UNCHANGED <<catalog_vars, callers, heap, session>>

\* the caller keeps the result of the transform call just made
Pin ==
    /\ call # Absent
    /\ call.op = "transform"
    /\ pinned = Absent
    /\ pinned' = call
    /\ UNCHANGED <<architects, created_for, raw_input, call>>
    /\ UNCHANGED <<catalog_vars, callers, heap, session>>

NoArchitects ==
    /\ architects = [a \in ArchIds |-> Absent]
    /\ created_for = [a \in ArchIds |-> None]
    /\ call = Absent
    /\ pinned = Absent

\* the callers that share the instances
Callers == {"caller_a", "caller_b"}

\* a caller that is in no call
idle ==
    [ pc |-> "idle", op |-> None, a |-> 0, raw |-> None, intent |-> None,
      context |-> Absent, result |-> Absent, overlapped |-> FALSE ]

NoCallers == callers = [c \in Callers |-> idle]

\* no list object exists, and no PromptContext or StructuredPrompt refers
\* to one
NoObjects ==
    heap = [ lists |-> <<>>, context |-> Absent, prompt |-> Absent, assembled |-> 0 ]

\* reruns of the app script made in one browser session
MaxReruns == 3

\* the options of the "Target LLM" selectbox
target_options ==
    {"claude-3.5-sonnet", "claude-3.5-haiku", "gpt-4-turbo", "gpt-4o", "gemini-pro"}

\* what the user may have in the "Raw Input" text area
UserInputs == {" ", "Write a technical article about neural networks"}

\* a new browser session: st.session_state holds neither 'architect' nor
\* 'current_llm' (Absent, None), the script has not run, and no
\* create_architect call was made for it
NoSession ==
    session = [ architect   |-> Absent,
                current_llm |-> None,
                target_llm  |-> None,
                created     |-> 0,
                reruns      |-> 0 ]

\* the initialization step that creates an architect only when the session
\* holds none
initialize_architect_once(state, target_llm) ==
    IF state.architect = Absent
    THEN [state EXCEPT !.architect = create_architect(target_llm),
                       !.current_llm = target_llm,
                       !.created = @ + 1]
    ELSE state

\* if 'architect' not in st.session_state or
\*    st.session_state.get('current_llm') != target_llm: ...
\* created counts the create_architect calls, so it tells the architect
\* objects of the session apart
initialize_architect(state, target_llm) ==
    IF state.architect = Absent \/ state.current_llm # target_llm
    THEN [state EXCEPT !.architect = create_architect(target_llm),
                       !.current_llm = target_llm,
                       !.created = @ + 1]
    ELSE state

\* user_input.strip() is empty
blank(user_input) == \A i \in 1..Len(user_input) : CharAt(user_input, i) \in SpaceSet

\* template_library = TemplateLibrary(), not yet called
CatalogLoaded ==
    /\ template_library = TemplateLibrary
    /\ catalog_call = Absent

\* instances are created, re-created and called on the sample inputs in
\* any order
Init ==
    /\ NoArchitects
    /\ CatalogLoaded
    /\ NoCallers
    /\ NoObjects
    /\ NoSession
    /\ raw_input \in SampleInputs

Next ==
    \/ \E a \in ArchIds, ident \in CallIdentifiers : CreateArchitect(a, ident)
    \/ \E raw \in SampleInputs : SetInput(raw)
    \/ \E a \in ArchIds : ExtractContext(a)
    \/ \E a \in ArchIds : AssemblePrompt(a)
    \/ \E a \in ArchIds : Transform(a)
    \/ Pin

Spec == Init /\ [][Next]_vars

\* the first call made on an instance: extract_context
FirstExtract(a) ==
    /\ call = Absent
    /\ ExtractContext(a)

\* the first call made on an instance: transform
FirstTransform(a) ==
    /\ call = Absent
    /\ Transform(a)

\* one instance, created once for any identifier, processes one raw input
\* of Texts: by transform, or by extract_context and then assemble_prompt
InitTexts ==
    /\ NoArchitects
    /\ CatalogLoaded
    /\ NoCallers
    /\ NoObjects
    /\ NoSession
    /\ raw_input \in Texts

NextTexts ==
    \/ \E ident \in Identifiers : CreateFirst(1, ident)
    \/ FirstExtract(1)
    \/ AssemblePrompt(1)
    \/ FirstTransform(1)

SpecTexts == InitTexts /\ [][NextTexts]_vars

\* number of entries of a values mapping given to fill_template
MaxEntries == 2

\* the names in the catalog, and two that are not
TemplateNames ==
    { load_templates[i][1] : i \in 1..Len(load_templates) } \cup {"no_such_template", ""}

\* the categories asked for: those of the catalog and one it does not have
Categories ==
    { load_templates[i][2].category : i \in 1..Len(load_templates) } \cup {"Marketing"}

\* entries a caller may put into values for template_name: the first three
\* documented example entries, a value that itself holds a placeholder, and
\* a key the template does not declare
value_pool(template_name) ==
    LET template == get_template(TemplateLibrary, template_name)
    IN IF template = Absent
       THEN { <<"topic", "quantum computing">>, <<"nothing", "Q">> }
       ELSE { template.example_values[i] : i \in 1..3 }
            \cup { <<template.variables[1], "{nothing}">>, <<"nothing", "Q">> }

RECURSIVE mappings_from(_, _)
\* the dicts of at most n entries of pool, in insertion order, no key twice
mappings_from(pool, n) ==
    IF n = 0 THEN {<<>>}
    ELSE LET shorter == mappings_from(pool, n - 1)
             extended(m) == { m \o <<e>> : e \in { x \in pool : ~dict_has(m, x[1]) } }
         IN shorter \cup UNION { extended(m) : m \in shorter }

\* the values mappings given to fill_template for template_name: the small
\* ones, and the template's whole example_values
Mappings(template_name) ==
    LET template == get_template(TemplateLibrary, template_name)
    IN mappings_from(value_pool(template_name), MaxEntries)
       \cup (IF template = Absent THEN {} ELSE {template.example_values})

\* template_library.get_template(template_name)
GetTemplate(template_name) ==
    /\ catalog_call' = [ op     |-> "get_template",
                         name   |-> template_name,
                         values |-> <<>>,
                         raised |-> None,
                         result |-> get_template(template_library, template_name) ]
    /\ UNCHANGED <<architects, created_for, raw_input, call, pinned, template_library, callers, heap, session>>

\* template_library.list_templates()
ListTemplates ==
    /\ catalog_call' = [ op     |-> "list_templates",
                         name   |-> None,
                         values |-> <<>>,
                         raised |-> None,
                         result |-> list_templates(template_library) ]
    /\ UNCHANGED <<architects, created_for, raw_input, call, pinned, template_library, callers, heap, session>>

\* template_library.get_templates_by_category(category)
GetTemplatesByCategory(category) ==
    /\ catalog_call' = [ op     |-> "get_templates_by_category",
                         name   |-> category,
                         values |-> <<>>,
                         raised |-> None,
                         result |-> get_templates_by_category(template_library, category) ]
    /\ UNCHANGED <<architects, created_for, raw_input, call, pinned, template_library, callers, heap, session>>

\* template_library.fill_template(template_name, values): returns, or
\* raises and leaves the message in result
FillTemplate(template_name, values) ==
    /\ LET outcome == fill_template(template_library, template_name, values)
       IN catalog_call' = [ op     |-> "fill_template",
                            name   |-> template_name,
                            values |-> values,
                            raised |-> outcome.raised,
                            result |-> outcome.value ]
    /\ UNCHANGED <<architects, created_for, raw_input, call, pinned, template_library, callers, heap, session>>

\* template_library.get_categories()
GetCategories ==
    /\ catalog_call' = [ op     |-> "get_categories",
                         name   |-> None,
                         values |-> <<>>,
                         raised |-> None,
                         result |-> get_categories(template_library) ]
    /\ UNCHANGED <<architects, created_for, raw_input, call, pinned, template_library, callers, heap, session>>

\* fill_template as its callers use it: as the first call, or on the name
\* that get_template was just asked for
FillAfterLookup(template_name, values) ==
    /\ IF catalog_call = Absent THEN TRUE
       ELSE catalog_call.op = "get_template" /\ catalog_call.name = template_name
    /\ FillTemplate(template_name, values)

\* the catalog is loaded at import and then called; no PromptArchitect
\* takes part
InitCatalog ==
    /\ NoArchitects
    /\ CatalogLoaded
    /\ NoCallers
    /\ NoObjects
    /\ NoSession
    /\ raw_input = ""

NextCatalog ==
    \/ \E template_name \in TemplateNames : GetTemplate(template_name)
    \/ ListTemplates
    \/ \E category \in Categories : GetTemplatesByCategory(category)
    \/ \E template_name \in TemplateNames :
           \E values \in Mappings(template_name) : FillAfterLookup(template_name, values)
    \/ GetCategories

SpecCatalog == InitCatalog /\ [][NextCatalog]_vars

\* caller c is inside a call that has not returned
InCall(c) == callers[c].pc \notin {"idle", "done"}

\* the callers after c has entered a call: the calls that are under way at
\* that moment, and c's own if there is one, overlap another call
entered(c, frame) ==
    [ d \in Callers |->
        IF d = c THEN [frame EXCEPT !.overlapped = \E e \in Callers \ {c} : InCall(e)]
        ELSE IF InCall(d) THEN [callers[d] EXCEPT !.overlapped = TRUE]
        ELSE callers[d] ]

\* caller c enters architects[a].extract_context(raw_input) or
\* architects[a].transform(raw_input)
CallBegin(c, op, a) ==
    /\ architects[a] # Absent
    /\ callers[c].pc = "idle"
    /\ callers' = entered(c, [idle EXCEPT !.pc = "detect_intent", !.op = op, !.a = a,
                                          !.raw = raw_input])
    /\ UNCHANGED <<architects, created_for, raw_input, call, pinned, catalog_vars, heap, session>>

\* caller c enters architects[a].assemble_prompt(context) with the context
\* its extract_context call returned
CallAssembleBegin(c, a) ==
    /\ architects[a] # Absent
    /\ callers[c].pc = "done"
    /\ callers[c].op = "extract_context"
    /\ callers' = entered(c, [idle EXCEPT !.pc = "assemble", !.op = "assemble_prompt",
                                          !.a = a, !.raw = callers[c].raw,
                                          !.context = callers[c].result])
    /\ UNCHANGED <<architects, created_for, raw_input, call, pinned, catalog_vars, heap, session>>

\* extract_context: intent = self._detect_intent(raw_input), which reads
\* self.intent_keywords
StepDetectIntent(c) ==
    /\ callers[c].pc = "detect_intent"
    /\ callers' = [callers EXCEPT
           ![c].intent = detect_intent(architects[callers[c].a].intent_keywords, callers[c].raw),
           ![c].pc = "detect_tone"]
    /\ UNCHANGED <<architects, created_for, raw_input, call, pinned, catalog_vars, heap, session>>

\* extract_context: the other detections, of which _detect_tone reads
\* self.tone_indicators, and the PromptContext built from them; the call
\* returns it, or transform goes on to assemble_prompt
StepBuildContext(c) ==
    /\ callers[c].pc = "detect_tone"
    /\ LET context == [extract_context(architects[callers[c].a], callers[c].raw)
                           EXCEPT !.intent = callers[c].intent]
       IN callers' = [callers EXCEPT
              ![c].context = context,
              ![c].result = IF callers[c].op = "extract_context" THEN context ELSE Absent,
              ![c].pc = IF callers[c].op = "extract_context" THEN "done" ELSE "assemble"]
    /\ UNCHANGED <<architects, created_for, raw_input, call, pinned, catalog_vars, heap, session>>

\* StepAssemble that also writes the instance: it leaves target_llm at the
\* default target
StepAssemble_retargets(c) ==
    /\ callers[c].pc = "assemble"
    /\ callers' = [callers EXCEPT
           ![c].result = assemble_prompt(architects[callers[c].a], callers[c].context),
           ![c].pc = "done"]
    /\ architects' = [architects EXCEPT ![callers[c].a].target_llm = "CLAUDE_35_SONNET"]
    /\ UNCHANGED <<created_for, raw_input, call, pinned, catalog_vars, heap, session>>

\* assemble_prompt(context), whose generate_constraints reads
\* self.target_llm; the call returns the StructuredPrompt
StepAssemble(c) ==
    /\ callers[c].pc = "assemble"
    /\ callers' = [callers EXCEPT
           ![c].result = assemble_prompt(architects[callers[c].a], callers[c].context),
           ![c].pc = "done"]
    /\ UNCHANGED <<architects, created_for, raw_input, call, pinned, catalog_vars, heap, session>>

\* caller c drops the value its call returned
CallReturn(c) ==
    /\ callers[c].pc = "done"
    /\ callers' = [callers EXCEPT ![c] = idle]
    /\ UNCHANGED <<architects, created_for, raw_input, call, pinned, catalog_vars, heap, session>>

\* instances are created once and then shared by the callers, whose calls
\* interleave step by step
NextCallers ==
    \/ \E a \in ArchIds, ident \in CallIdentifiers : CreateFirst(a, ident)
    \/ \E c \in Callers, a \in ArchIds :
           \E op \in {"extract_context", "transform"} : CallBegin(c, op, a)
    \/ \E c \in Callers, a \in ArchIds : CallAssembleBegin(c, a)
    \/ \E c \in Callers : StepDetectIntent(c)
    \/ \E c \in Callers : StepBuildContext(c)
    \/ \E c \in Callers : StepAssemble(c)
    \/ \E c \in Callers : CallReturn(c)

SpecCallers == Init /\ [][NextCallers]_vars

\* number of assemble_prompt calls made on one PromptContext
MaxAssembles == 2

\* what the caller appends to a constraints list it was returned
CallerConstraint == "Added by the caller"

\* the PromptContext with its two lists in place of their addresses
deref(lists, context) ==
    [context EXCEPT !.constraints = lists[context.constraints],
                    !.keywords = lists[context.keywords]]

\* generate_constraints building its list in the list object of the context
constraints_list_aliased(lists, context) == context.constraints

\* constraints = context.constraints.copy(): the address of a new list object
constraints_list(lists, context) == Len(lists) + 1

\* lists with value held at address, which is an existing address or the
\* next free one
stored(lists, address, value) ==
    IF address = Len(lists) + 1 THEN Append(lists, value)
    ELSE [lists EXCEPT ![address] = value]

\* context = architect.extract_context(raw_input): the PromptContext refers
\* to two new lists, constraints and keywords
HeapExtract(a) ==
    /\ architects[a] # Absent
    /\ heap.context = Absent
    /\ LET context == extract_context(architects[a], raw_input)
       IN heap' = [ lists     |-> <<context.constraints, context.keywords>>,
                    context   |-> [context EXCEPT !.constraints = 1, !.keywords = 2],
                    prompt    |-> Absent,
                    assembled |-> 0 ]
    /\ UNCHANGED <<architects, created_for, raw_input, call, pinned, catalog_vars, callers, session>>

\* prompt = architect.assemble_prompt(context): instructions and
\* quality_criteria are new lists, constraints is the list that
\* generate_constraints extended
HeapAssemble(a) ==
    /\ architects[a] # Absent
    /\ heap.context # Absent
    /\ heap.assembled < MaxAssembles
    /\ LET prompt == assemble_prompt(architects[a], deref(heap.lists, heap.context))
           with_instructions == Append(heap.lists, prompt.instructions)
           constraints == constraints_list(with_instructions, heap.context)
           with_constraints == stored(with_instructions, constraints, prompt.constraints)
           with_criteria == Append(with_constraints, prompt.quality_criteria)
       IN heap' = [ lists     |-> with_criteria,
                    context   |-> heap.context,
                    prompt    |-> [prompt EXCEPT !.instructions = Len(with_instructions),
                                                 !.constraints = constraints,
                                                 !.quality_criteria = Len(with_criteria)],
                    assembled |-> heap.assembled + 1 ]
    /\ UNCHANGED <<architects, created_for, raw_input, call, pinned, catalog_vars, callers, session>>

\* prompt.constraints.append(...): the caller changes the list it was returned
HeapModify ==
    /\ heap.prompt # Absent
    /\ LET constraints == heap.lists[heap.prompt.constraints]
       IN /\ constraints[Len(constraints)] # CallerConstraint
          /\ heap' = [heap EXCEPT !.lists[heap.prompt.constraints] =
                                      Append(constraints, CallerConstraint)]
    /\ UNCHANGED <<architects, created_for, raw_input, call, pinned, catalog_vars, callers, session>>

\* one context is extracted, assembled several times, and the caller
\* changes the lists it is returned
NextObjects ==
    \/ \E ident \in CallIdentifiers : CreateFirst(1, ident)
    \/ HeapExtract(1)
    \/ HeapAssemble(1)
    \/ HeapModify

SpecObjects == InitTexts /\ [][NextObjects]_vars

\* further pieces of raw input, for the labels that Fragments does not
\* reach: the other audiences, tones, formats, intents and categories, and
\* an advanced cue without a basic one
MoreFragments ==
    <<"persuasive json list for beginners",
      "Compare advanced academic poems",
      "improve a friendly markdown table for students",
      "Explain the business strategy to everyone",
      "convert the chat into an original essay",
      "an intermediate outline, easy and precise">>

AllFragments == Fragments \o MoreFragments

RECURSIVE picks_upto(_, _, _)
\* the index sequences k..m, strictly increasing, of length at most n
picks_upto(m, k, n) ==
    IF n = 0 \/ k > m THEN {<<>>}
    ELSE picks_upto(m, k + 1, n)
         \cup { <<k>> \o rest : rest \in picks_upto(m, k + 1, n - 1) }

\* the raw inputs made of at most MaxFragments pieces of AllFragments
AllTexts ==
    { join(" ", [i \in 1..Len(pick) |-> AllFragments[pick[i]]]) :
          pick \in picks_upto(Len(AllFragments), 1, MaxFragments) }

InitAllTexts ==
    /\ NoArchitects
    /\ CatalogLoaded
    /\ NoCallers
    /\ NoObjects
    /\ NoSession
    /\ raw_input \in AllTexts

\* one instance extracts the context of one raw input of AllTexts
NextExtract ==
    \/ \E ident \in CallIdentifiers : CreateFirst(1, ident)
    \/ FirstExtract(1)

SpecExtract == InitAllTexts /\ [][NextExtract]_vars

\* the first assemble_prompt call made on a context
FirstAssemble(a) ==
    /\ heap.prompt = Absent
    /\ HeapAssemble(a)

\* one context is extracted from a raw input of AllTexts and assembled once;
\* the context and the prompt made from it are both at hand
NextPrompts ==
    \/ \E ident \in CallIdentifiers : CreateFirst(1, ident)
    \/ HeapExtract(1)
    \/ FirstAssemble(1)

SpecPrompts == InitAllTexts /\ [][NextPrompts]_vars

\* one run of the app script: the sidebar selectbox gives target_llm, the
\* architect of the session is initialized, the text area gives user_input
\* and, when the button was pressed on a non-blank input, the architect of
\* the session transforms it
Rerun(target_llm, user_input, generate_button) ==
    /\ session.reruns < MaxReruns
    /\ LET state == initialize_architect(session, target_llm)
       IN /\ session' = [state EXCEPT !.target_llm = target_llm, !.reruns = @ + 1]
          /\ call' = IF generate_button /\ ~blank(user_input)
                     THEN [ op    |-> "transform",
                            ident |-> state.current_llm,
                            raw   |-> user_input,
                            value |-> transform(state.architect, user_input) ]
                     ELSE call
    /\ raw_input' = user_input
    /\ UNCHANGED <<architects, created_for, pinned, catalog_vars, callers, heap>>

\* a browser session opens on the app with an empty text area
InitSession ==
    /\ NoArchitects
    /\ CatalogLoaded
    /\ NoCallers
    /\ NoObjects
    /\ NoSession
    /\ raw_input = ""

\* the user selects a target, edits the input and may press the button;
\* every such interaction reruns the script
NextSession ==
    \E target_llm \in target_options, user_input \in UserInputs, generate_button \in BOOLEAN :
        Rerun(target_llm, user_input, generate_button)

SpecSession == InitSession /\ [][NextSession]_vars

TypeOK ==
    /\ \A a \in ArchIds : architects[a] = Absent \/ architects[a].target_llm \in TargetLLM
    /\ call = Absent \/ call.op \in {"extract_context", "assemble_prompt", "transform"}

(***************************************************************************)
(* Properties                                                              *)
(***************************************************************************)
ExtractDone == call # Absent /\ call.op = "extract_context"

TransformDone == call # Absent /\ call.op = "transform"

\* the priority order of the categories
CategoryOrder ==
    <<"analysis", "agent_development", "technical", "educational",
      "creative", "business", "content_creation", "conversation">>

CategoryHit(c, t) == any_in(dict_get(category_keywords, c, <<>>), t)

\* C1: category detection returns the first category of CategoryOrder with a
\* trigger occurring in the lower-cased input, content_creation when there
\* is none; an input with an analysis trigger and a technical trigger is
\* analysis.
C1_CategoryPriority ==
    ExtractDone =>
        LET t == lower(call.raw)
            hits == { k \in 1..Len(CategoryOrder) : CategoryHit(CategoryOrder[k], t) }
        IN /\ call.value.category =
                  (IF hits = {} THEN "content_creation" ELSE CategoryOrder[Min(hits)])
           /\ (CategoryHit("analysis", t) /\ CategoryHit("technical", t))
                  => call.value.category = "analysis"

\* "analyze" and "code" both occur and the category is analysis
C1_Witness ==
    /\ ExtractDone
    /\ Contains("analyze", lower(call.raw))
    /\ Contains("code", lower(call.raw))
    /\ call.value.category = "analysis"

\* the tie-breaking order of the intents
IntentOrder ==
    <<"create", "analyze", "explain", "improve", "convert", "summarize", "compare", "plan">>

IntentCount(k, t) ==
    LET triggers == dict_get(load_intent_keywords, IntentOrder[k], <<>>)
    IN Cardinality({ j \in 1..Len(triggers) : Contains(triggers[j], t) })

\* C2: intent detection returns the intent with the most trigger hits, the
\* earliest of IntentOrder among those with the most, and
\* general_assistance when no trigger occurs.
C2_IntentHighestCount ==
    ExtractDone =>
        LET t == lower(call.raw)
            count == [k \in 1..Len(IntentOrder) |-> IntentCount(k, t)]
            top == Max({ count[k] : k \in 1..Len(IntentOrder) })
        IN call.value.intent =
               (IF top = 0 THEN "general_assistance"
                ELSE IntentOrder[Min({ k \in 1..Len(IntentOrder) : count[k] = top })])

\* one create hit ("write") ties with one explain hit ("teach"): create
C2_Witness ==
    /\ ExtractDone
    /\ IntentCount(1, lower(call.raw)) = 1
    /\ IntentCount(3, lower(call.raw)) = 1
    /\ \A k \in 1..Len(IntentOrder) : IntentCount(k, lower(call.raw)) <= 1
    /\ call.value.intent = "create"

RECURSIVE AllKeywords(_)
AllKeywords(table) ==
    IF table = <<>> THEN {}
    ELSE { Head(table)[2][j] : j \in 1..Len(Head(table)[2]) } \cup AllKeywords(Tail(table))

\* every literal whose occurrence changes a field of the context
AllTriggers ==
    AllKeywords(load_intent_keywords) \cup AllKeywords(category_keywords)
    \cup AllKeywords(audiences) \cup AllKeywords(load_tone_indicators)
    \cup AllKeywords(formats)
    \cup { basic_words[j] : j \in 1..Len(basic_words) }
    \cup { advanced_words[j] : j \in 1..Len(advanced_words) }
    \cup {"short", "brief", "detailed", "comprehensive", "quick", "fast",
          "accurate", "precise", "simple", "easy"}

\* t[i..j] is a run of digits followed by optional whitespace and "word"
NumberBeforeWord(t, i, j) ==
    /\ i <= j
    /\ \A p \in i..j : CharAt(t, p) \in DigitSet
    /\ \E w \in (j + 1)..(Len(t) - 3) :
           /\ \A p \in (j + 1)..(w - 1) : CharAt(t, p) \in SpaceSet
           /\ SubSeq(t, w, w + 3) = "word"

DigitPositions(t) == { p \in 1..Len(t) : CharAt(t, p) \in DigitSet }

NumberOccurrences(t) ==
    { ij \in DigitPositions(t) \X DigitPositions(t) : NumberBeforeWord(t, ij[1], ij[2]) }

NoTrigger(raw) ==
    LET t == lower(raw)
    IN /\ \A k \in AllTriggers : ~Contains(k, t)
       /\ NumberOccurrences(t) = {}

Blank(raw) == \A p \in 1..Len(raw) : CharAt(raw, p) \in SpaceSet

\* four letters in a row somewhere in the input
HasLongWord(raw) ==
    \E p \in 1..(Len(raw) - 3) :
        \A q \in p..(p + 3) : CharAt(raw, q) \in UpperSet \cup LowerSet

DefaultContext(raw) ==
    [ raw_input        |-> raw,
      intent           |-> "general_assistance",
      category         |-> "content_creation",
      target_audience  |-> "general_public",
      tone             |-> "professional",
      output_format    |-> "paragraph",
      constraints      |-> <<>>,
      keywords         |-> <<>>,
      complexity_level |-> "intermediate" ]

Labels(table) == { table[k][1] : k \in 1..Len(table) }

\* every field of the returned context has a value of its type
ContextComplete(c) ==
    /\ DOMAIN c = DOMAIN DefaultContext("")
    /\ c.intent \in Labels(load_intent_keywords) \cup {"general_assistance"}
    /\ c.category \in PromptCategory
    /\ c.target_audience \in Labels(audiences)
    /\ c.tone \in Labels(load_tone_indicators)
    /\ c.output_format \in Labels(formats)
    /\ c.complexity_level \in {"basic", "intermediate", "advanced"}
    /\ DOMAIN c.constraints = 1..Len(c.constraints)
    /\ DOMAIN c.keywords = 1..Len(c.keywords)

\* C3 as stated: a context is returned for every input, and an input with
\* no trigger gives exactly the default context, keywords = [] included.
C3_Original ==
    ExtractDone =>
        /\ ContextComplete(call.value)
        /\ NoTrigger(call.raw) => call.value = DefaultContext(call.raw)

\* C3 amended: a context is returned for every input; an input with no
\* trigger gives the default value of every field other than keywords; the
\* keywords are empty too when the input has no four letters in a row, so
\* the empty and the whitespace-only input give exactly the default context.
C3_TotalWithDefaults ==
    ExtractDone =>
        /\ ContextComplete(call.value)
        /\ NoTrigger(call.raw) =>
               [call.value EXCEPT !.keywords = <<>>] = DefaultContext(call.raw)
        /\ (NoTrigger(call.raw) /\ ~HasLongWord(call.raw)) =>
               call.value = DefaultContext(call.raw)
        /\ Blank(call.raw) => call.value = DefaultContext(call.raw)

\* a whitespace-only input, not empty, has given the default context
C3_Witness ==
    /\ ExtractDone
    /\ call.raw # ""
    /\ Blank(call.raw)
    /\ call.value = DefaultContext(call.raw)

Headers == <<"# Role Definition", "# Instructions", "# Constraints", "# Quality Criteria">>

Occurrences(h, t) == { i \in 1..(Len(t) - Len(h) + 1) : SubSeq(t, i, i + Len(h) - 1) = h }

\* C4: full_prompt contains each of the four headers exactly once, in the
\* order Role Definition, Instructions, Constraints, Quality Criteria.
C4_HeadersOnceInOrder ==
    TransformDone =>
        LET at == [k \in 1..Len(Headers) |-> Occurrences(Headers[k], call.value.full_prompt)]
        IN /\ \A k \in 1..Len(Headers) : Cardinality(at[k]) = 1
           /\ \A k \in 1..(Len(Headers) - 1) : Min(at[k]) < Min(at[k + 1])

\* C5: transform returns 4 or 5 instructions, 5 exactly when the keywords
\* extracted from the input are non-empty.
C5_InstructionCount ==
    TransformDone =>
        /\ Len(call.value.instructions) \in {4, 5}
        /\ Len(call.value.instructions) = 5 <=> extract_keywords(call.raw) # <<>>

\* a non-empty input without keywords has given 4 instructions
C5_Witness ==
    /\ TransformDone
    /\ call.raw # ""
    /\ extract_keywords(call.raw) = <<>>
    /\ Len(call.value.instructions) = 4

\* C6: the extracted keywords are at most 10, pairwise distinct and
\* lower-case.
C6_KeywordBound ==
    ExtractDone =>
        LET keywords == call.value.keywords
        IN /\ Len(keywords) <= 10
           /\ \A i, j \in 1..Len(keywords) : i # j => keywords[i] # keywords[j]
           /\ \A i \in 1..Len(keywords) : CharsOf(keywords[i]) \cap UpperSet = {}

\* the input has more than 10 candidate keywords: 10 are returned and a
\* later one ("professionally") is dropped
C6_Witness ==
    /\ ExtractDone
    /\ Len(call.value.keywords) = 10
    /\ Contains("professionally", call.raw)
    /\ \A i \in 1..10 : call.value.keywords[i] # "professionally"

WordLimitPrefix == "Limit response to approximately "

IsWordLimit(c) ==
    Len(c) >= Len(WordLimitPrefix) /\ SubSeq(c, 1, Len(WordLimitPrefix)) = WordLimitPrefix

\* C7: when the lower-cased input has a digit run N followed by optional
\* whitespace and "word", the constraints hold exactly one word-limit
\* constraint, for the N of the first occurrence, containing "N words";
\* without such a pattern they hold none.
C7_WordCount ==
    ExtractDone =>
        LET t == lower(call.raw)
            occ == NumberOccurrences(t)
            limits == SelectSeq(call.value.constraints, IsWordLimit)
        IN IF occ = {} THEN limits = <<>>
           ELSE LET i == Min({ ij[1] : ij \in occ })
                    j == CHOOSE e \in DigitPositions(t) : <<i, e>> \in occ
                    N == SubSeq(t, i, j)
                IN /\ Len(limits) = 1
                   /\ limits[1] = WordLimitPrefix \o N \o " words"
                   /\ Contains(N \o " words", limits[1])

\* two occurrences with different numbers: the first one, 5, is taken
C7_Witness ==
    /\ ExtractDone
    /\ Contains("5word", call.raw)
    /\ Contains("200", call.raw)
    /\ SelectSeq(call.value.constraints, IsWordLimit)
           = <<"Limit response to approximately 5 words">>

BothTransform == pinned # Absent /\ TransformDone /\ pinned.raw = call.raw

\* C8: create_architect with an unsupported identifier returns an instance,
\* and its transform returns what the transform of an instance created for
\* claude-3.5-sonnet returns on the same input.
C8_ProfileFallback ==
    /\ \A a \in ArchIds :
           (created_for[a] # None /\ created_for[a] \notin SupportedIdentifiers) =>
               /\ architects[a] # Absent
               /\ architects[a].target_llm \in TargetLLM
    /\ \A p, q \in {pinned, call} :
           (/\ BothTransform
            /\ p.ident \notin SupportedIdentifiers
            /\ q.ident = "claude-3.5-sonnet") => p.value = q.value

\* a transform for claude-3.5-sonnet was kept and the same input was then
\* transformed by an instance created for an unsupported identifier
C8_Witness ==
    /\ BothTransform
    /\ pinned.ident = "claude-3.5-sonnet"
    /\ call.ident \notin SupportedIdentifiers

\* C9: two transform calls for the same identifier and the same input
\* return equal StructuredPrompts, whatever was created or called between
\* them.
C9_Determinism ==
    (BothTransform /\ pinned.ident = call.ident) => pinned.value = call.value

\* a transform for gpt-4o was kept and the same input was transformed again
\* for gpt-4o; the caller has since turned to another input
C9_Witness ==
    /\ BothTransform
    /\ pinned.ident = call.ident
    /\ pinned.ident = "gpt-4o"
    /\ raw_input # call.raw

\* C10: for an identifier containing "claude" the constraints, joined and
\* lower-cased, contain "reasoning" or "detailed".
C10_ClaudeReasoning ==
    (TransformDone /\ Contains("claude", call.ident)) =>
        LET constraint_text == lower(join(" ", call.value.constraints))
        IN Contains("reasoning", constraint_text) \/ Contains("detailed", constraint_text)

\* C11: every StructuredPrompt returned by transform has a non-empty
\* role_definition, at least 3 instructions, at least 3 constraints, at
\* least 3 quality criteria and a non-empty full_prompt.
C11_ResultComplete ==
    TransformDone =>
        /\ call.value.role_definition # ""
        /\ Len(call.value.instructions) >= 3
        /\ Len(call.value.constraints) >= 3
        /\ Len(call.value.quality_criteria) >= 3
        /\ call.value.full_prompt # ""

\* transform of the empty input by an instance whose target has no
\* constraints of its own: no constraint comes from the input either
C11_Witness ==
    /\ TransformDone
    /\ call.raw = ""
    /\ call.ident \in {"claude-3.5-haiku", "gemini-pro"}
    /\ extract_constraints(call.raw) = <<>>
    /\ llm_constraints(resolve_target(call.ident)) = <<>>

\* a catalog call of one of ops has returned or raised
CatalogDone(ops) == catalog_call # Absent /\ catalog_call.op \in ops

\* C12: get_template and fill_template, asked for a name that is not in the
\* catalog, raise an error rather than return a value, and leave the
\* catalog as it was loaded.
C12_LookupFailureExplicit ==
    (/\ CatalogDone({"get_template", "fill_template"})
     /\ ~dict_has(template_library.templates, catalog_call.name)) =>
        /\ catalog_call.raised # None
        /\ template_library = TemplateLibrary

\* fill_template was called for a template of the catalog with that
\* template's example_values
ExampleFilled ==
    /\ CatalogDone({"fill_template"})
    /\ dict_has(template_library.templates, catalog_call.name)
    /\ catalog_call.values = get_template(template_library, catalog_call.name).example_values

\* C13: fill_template of a catalog template with its own example_values
\* returns a non-empty string in which no placeholder {v} of a declared
\* variable v is left.
C13_TemplateRoundTrip ==
    ExampleFilled =>
        LET template == get_template(template_library, catalog_call.name)
        IN /\ catalog_call.raised = None
           /\ catalog_call.result # ""
           /\ \A i \in 1..Len(template.variables) :
                  ~Contains("{" \o template.variables[i] \o "}", catalog_call.result)

\* blog_post was filled with its example_values
C13_Witness ==
    /\ ExampleFilled
    /\ catalog_call.name = "blog_post"
    /\ Contains("artificial intelligence in healthcare", catalog_call.result)

\* the entries of values whose key is a placeholder of text
placeholder_entries(text, values) ==
    LET is_placeholder(e) == Contains("{" \o e[1] \o "}", text)
    IN SelectSeq(values, is_placeholder)

\* C14: fill_template of a catalog template with any values returns; each
\* placeholder {v} of a declared variable v that has no entry in values
\* occurs in the result as often as in the template; and the result is the
\* one obtained without the entries whose key is not a placeholder of the
\* template.
C14_PartialFill ==
    (/\ CatalogDone({"fill_template"})
     /\ dict_has(template_library.templates, catalog_call.name)) =>
        LET template == get_template(template_library, catalog_call.name)
            unfilled == { i \in 1..Len(template.variables) :
                            ~dict_has(catalog_call.values, template.variables[i]) }
            placeholder(i) == "{" \o template.variables[i] \o "}"
        IN /\ catalog_call.raised = None
           /\ \A i \in unfilled :
                  Cardinality(occurrences_of(catalog_call.result, placeholder(i)))
                      = Cardinality(occurrences_of(template.template, placeholder(i)))
           /\ catalog_call.result =
                  fill_values(template.template,
                              placeholder_entries(template.template, catalog_call.values))

\* full_prompt without its Constraints section: the text up to the
\* Constraints header and the text from the Output Format header on
outside_constraints(full_prompt) ==
    LET from == Min(occurrences_of(full_prompt, "\n# Constraints\n"))
        upto == Min({ i \in occurrences_of(full_prompt, "\n# Output Format\n") : i > from })
    IN SubSeq(full_prompt, 1, from - 1) \o SubSeq(full_prompt, upto, Len(full_prompt))

\* two StructuredPrompts that differ at most in constraints and in the
\* Constraints section of full_prompt
same_but_constraints(p, q) ==
    /\ p.role_definition = q.role_definition
    /\ p.context = q.context
    /\ p.instructions = q.instructions
    /\ p.output_format = q.output_format
    /\ p.examples = q.examples
    /\ p.quality_criteria = q.quality_criteria
    /\ outside_constraints(p.full_prompt) = outside_constraints(q.full_prompt)

\* C15: for any identifier, extract_context returns the PromptContext it
\* returns for claude-3.5-sonnet (hence for any other identifier), and
\* transform agrees with the one for claude-3.5-sonnet on
\* role_definition, context, instructions, output_format, examples and
\* quality_criteria, and on full_prompt outside its Constraints section.
C15_ProfileOnlyConstraints ==
    /\ ExtractDone =>
           extract_context(create_architect("claude-3.5-sonnet"), call.raw) = call.value
    /\ TransformDone =>
           same_but_constraints(call.value,
                                transform(create_architect("claude-3.5-sonnet"), call.raw))

\* an input was transformed for gpt-4o; for claude-3.5-sonnet its
\* constraints and its full_prompt are different
C15_Witness ==
    /\ TransformDone
    /\ call.ident = "gpt-4o"
    /\ LET other == transform(create_architect("claude-3.5-sonnet"), call.raw)
       IN /\ other.constraints # call.value.constraints
          /\ other.full_prompt # call.value.full_prompt

\* the value the call of caller c returns when it is the only call made on
\* a fresh instance for the same identifier
alone(c) ==
    LET self == create_architect(created_for[callers[c].a])
    IN IF callers[c].op = "extract_context" THEN extract_context(self, callers[c].raw)
       ELSE IF callers[c].op = "transform" THEN transform(self, callers[c].raw)
       ELSE assemble_prompt(self, callers[c].context)

\* C16: while callers interleave their calls on shared instances, every
\* instance keeps the target_llm, intent_keywords and tone_indicators it
\* was created with, and every call returns the value it returns when run
\* alone.
C16_ConcurrentSafe ==
    /\ \A a \in ArchIds :
           architects[a] # Absent => architects[a] = create_architect(created_for[a])
    /\ \A c \in Callers :
           callers[c].pc = "done" => callers[c].result = alone(c)

\* a transform call that overlapped another call on the same instance has
\* returned, while the other caller is still inside its call
C16_Witness ==
    /\ callers["caller_a"].pc = "done"
    /\ callers["caller_a"].op = "transform"
    /\ callers["caller_a"].overlapped
    /\ InCall("caller_b")
    /\ callers["caller_b"].a = callers["caller_a"].a
    /\ created_for[callers["caller_a"].a] = "gpt-4o"

\* the enumerated output formats
OutputFormats == {"markdown", "json", "list", "paragraph", "code", "table", "step_by_step"}

\* C17: the output_format of the PromptContext returned by extract_context,
\* and of the StructuredPrompt returned by transform or assemble_prompt, is
\* one of markdown, json, list, paragraph, code, table, step_by_step.
C17_OutputFormatDomain ==
    call # Absent => call.value.output_format \in OutputFormats

\* transform or assemble_prompt has returned a StructuredPrompt
PromptDone == call # Absent /\ call.op \in {"transform", "assemble_prompt"}

\* the number of constraints a target adds
ExtraCount(ident) ==
    IF ident \in {"claude-3.5-haiku", "gemini-pro"} THEN 0
    ELSE IF ident \in {"gpt-4-turbo", "gpt-4o"} THEN 2
    ELSE 3

C19_ContextNotMutated ==
    heap.prompt # Absent =>
        /\ deref(heap.lists, heap.context)
               = extract_context(create_architect(created_for[1]), raw_input)
        /\ heap.prompt.constraints \notin {heap.context.constraints, heap.context.keywords}

\* a context with constraints and keywords was assembled twice, and the
\* caller has changed the constraints list of the second prompt
C19_Witness ==
    /\ heap.prompt # Absent
    /\ heap.assembled >= 2
    /\ heap.lists[heap.context.constraints] # <<>>
    /\ heap.lists[heap.context.keywords] # <<>>
    /\ LET constraints == heap.lists[heap.prompt.constraints]
       IN constraints[Len(constraints)] = CallerConstraint

\* s begins with prefix
starts_with(s, prefix) == Len(s) >= Len(prefix) /\ SubSeq(s, 1, Len(prefix)) = prefix

\* the names of the universal criteria, in order
UniversalNames == <<"Relevance:", "Accuracy:", "Clarity:", "Completeness:">>

\* C20: the quality criteria of a StructuredPrompt are the 4 universal ones
\* (relevance, accuracy, clarity, completeness) in that order, then the one
\* of the category, then a tone criterion exactly when the tone is
\* professional or educational: 6 in all for those tones and 5 otherwise.
C20_QualityCriteria ==
    PromptDone =>
        LET context == extract_context(create_architect(call.ident), call.raw)
            criteria == call.value.quality_criteria
            toned == context.tone \in {"professional", "educational"}
        IN /\ Len(criteria) = IF toned THEN 6 ELSE 5
           /\ \A i \in 1..4 : starts_with(criteria[i], UniversalNames[i])
           /\ dict_has(category_criteria, context.category)
           /\ criteria[5] = dict_get(category_criteria, context.category, "")
           /\ context.tone = "professional" => starts_with(criteria[6], "Professionalism:")
           /\ context.tone = "educational" => starts_with(criteria[6], "Educational value:")

\* a prompt for a casual business request: 5 criteria, the last that of
\* the category
C20_Witness ==
    /\ PromptDone
    /\ Len(call.value.quality_criteria) = 5
    /\ starts_with(call.value.quality_criteria[5], "Actionability:")
    /\ detect_tone(load_tone_indicators, call.raw) = "casual"

\* a context was extracted and a prompt assembled from it
Assembled == heap.context # Absent /\ heap.prompt # Absent

\* the PromptContext that was assembled
TheContext == deref(heap.lists, heap.context)

\* C21: role_definition is the base role of the category, then
\* " specializing in " and the first min(3, number of keywords) keywords
\* joined by ", " exactly when there are keywords, then ", " and the
\* modifier of the tone, then one final period; every category has a base
\* role and every tone a modifier.
C21_RoleDefinition ==
    /\ \A c \in PromptCategory : dict_has(role_templates, c)
    /\ \A i \in 1..Len(load_tone_indicators) :
           dict_has(tone_modifiers, load_tone_indicators[i][1])
    /\ Assembled =>
            LET context == TheContext
                role_definition == heap.prompt.role_definition
                n == Len(role_definition)
                k == Min({3, Len(context.keywords)})
                specialization ==
                    IF context.keywords = <<>> THEN ""
                    ELSE " specializing in " \o join(", ", SubSeq(context.keywords, 1, k))
            IN /\ dict_has(role_templates, context.category)
               /\ dict_has(tone_modifiers, context.tone)
               /\ role_definition = dict_get(role_templates, context.category, "")
                                        \o specialization
                                        \o ", " \o dict_get(tone_modifiers, context.tone, "")
                                        \o "."
               /\ CharAt(role_definition, n) = "."
               /\ CharAt(role_definition, n - 1) # "."

\* a prompt from a context with more than 3 keywords
C21_Witness ==
    /\ Assembled
    /\ Len(TheContext.keywords) > 3
    /\ Contains(" specializing in ", heap.prompt.role_definition)

Concise == "Keep response concise and brief"

Detailed == "Provide detailed and comprehensive response"

\* the place of a constraint in the fixed order: length, word limit, speed,
\* accuracy, simplicity; 0 for any other string
RuleOf(c) ==
    IF c \in {Concise, Detailed} THEN 1
    ELSE IF IsWordLimit(c) THEN 2
    ELSE IF c = "Prioritize speed and efficiency" THEN 3
    ELSE IF c = "Ensure high accuracy and precision" THEN 4
    ELSE IF c = "Use simple, easy-to-understand language" THEN 5
    ELSE 0

\* the rules whose constraint is in constraints
RulesIn(constraints) == { RuleOf(constraints[i]) : i \in 1..Len(constraints) }

\* C22: the extracted constraints follow the order length, word limit,
\* speed, accuracy, simplicity with at most one of each; a short cue gives
\* the concise constraint alone of the two length constraints, a long cue
\* without a short cue the detailed one; and the word-limit, speed, accuracy
\* and simplicity constraints are each present exactly when their own cue
\* is in the lower-cased input.
C22_ConstraintRules ==
    ExtractDone =>
        LET t == lower(call.raw)
            constraints == call.value.constraints
            has(c) == \E i \in 1..Len(constraints) : constraints[i] = c
            short == Contains("short", t) \/ Contains("brief", t)
            long == Contains("detailed", t) \/ Contains("comprehensive", t)
        IN /\ \A i \in 1..Len(constraints) : RuleOf(constraints[i]) >= 1
           /\ \A i \in 1..(Len(constraints) - 1) :
                  RuleOf(constraints[i]) < RuleOf(constraints[i + 1])
           /\ has(Concise) <=> short
           /\ has(Detailed) <=> (long /\ ~short)
           /\ (2 \in RulesIn(constraints)) <=> (NumberOccurrences(t) # {})
           /\ (3 \in RulesIn(constraints)) <=> (Contains("quick", t) \/ Contains("fast", t))
           /\ (4 \in RulesIn(constraints)) <=> (Contains("accurate", t) \/ Contains("precise", t))
           /\ (5 \in RulesIn(constraints)) <=> (Contains("simple", t) \/ Contains("easy", t))

\* an input with a short cue and a long cue: the concise constraint, then
\* those for speed and accuracy
C22_Witness ==
    /\ ExtractDone
    /\ Contains("brief", lower(call.raw))
    /\ Contains("detailed", lower(call.raw))
    /\ call.value.constraints =
           <<Concise, "Prioritize speed and efficiency", "Ensure high accuracy and precision">>

RECURSIVE AlphabeticRuns(_, _)
\* the maximal runs of letters of the lower-cased text t from position p
\* on, whatever stands next to them
AlphabeticRuns(t, p) ==
    LET starts == { q \in p..Len(t) : CharAt(t, q) \in LowerSet }
    IN IF starts = {} THEN <<>>
       ELSE LET q == Min(starts)
                e == skip_while(t, q, LowerSet) - 1
            IN <<SubSeq(t, q, e)>> \o AlphabeticRuns(t, e + 1)

\* C23: keywords are the maximal runs of letters of the input, those next
\* to digits or underscores included, lower-cased, without stop words and
\* runs of 3 letters or fewer, later duplicates removed, the first 10 kept.
C23_KeywordAlgorithm ==
    ExtractDone =>
        LET runs == AlphabeticRuns(lower(call.raw), 1)
            kept(word) == word \notin stop_words /\ Len(word) > 3
        IN call.value.keywords = take(dedupe(SelectSeq(runs, kept), {}), 10)

AudienceOrder ==
    <<"beginners", "intermediate", "experts", "students", "professionals", "general_public">>

ToneOrder == <<"professional", "casual", "academic", "creative", "persuasive", "educational">>

FormatOrder == <<"markdown", "json", "list", "paragraph", "code", "table", "step-by-step">>

\* the places in order of the labels of table that have a trigger in t
HitPlaces(order, table, t) ==
    { k \in 1..Len(order) : any_in(dict_get(table, order[k], <<>>), t) }

\* the first label of order with a trigger in t, or default
FirstHit(order, table, t, default) ==
    LET hits == HitPlaces(order, table, t)
    IN IF hits = {} THEN default ELSE order[Min(hits)]

\* C24: audience, tone and output format are each the first label, in the
\* order of its table (AudienceOrder, ToneOrder, FormatOrder), that has a
\* trigger in the lower-cased input, and general_public, professional,
\* paragraph when no label has one.
C24_FirstMatchScans ==
    /\ Labels(audiences) = { AudienceOrder[k] : k \in 1..Len(AudienceOrder) }
    /\ Labels(load_tone_indicators) = { ToneOrder[k] : k \in 1..Len(ToneOrder) }
    /\ Labels(formats) = { FormatOrder[k] : k \in 1..Len(FormatOrder) }
    /\ ExtractDone =>
           LET t == lower(call.raw)
           IN /\ call.value.target_audience
                     = FirstHit(AudienceOrder, audiences, t, "general_public")
              /\ call.value.tone
                     = FirstHit(ToneOrder, load_tone_indicators, t, "professional")
              /\ call.value.output_format
                     = FirstHit(FormatOrder, formats, t, "paragraph")

\* an input with triggers of two tones (casual before educational), an
\* audience trigger and a format trigger
C24_Witness ==
    /\ ExtractDone
    /\ Cardinality(HitPlaces(ToneOrder, load_tone_indicators, lower(call.raw))) >= 2
    /\ call.value.tone = "casual"
    /\ call.value.target_audience = "experts"
    /\ call.value.output_format = "step-by-step"

BasicCues == {"simple", "basic", "easy", "beginner"}

AdvancedCues == {"advanced", "complex", "expert", "sophisticated"}

\* C25: complexity is basic when the lower-cased input contains a basic
\* cue, also when it contains an advanced cue as well; otherwise advanced
\* when it contains an advanced cue; otherwise intermediate.
C25_Complexity ==
    ExtractDone =>
        LET t == lower(call.raw)
            basic == \E cue \in BasicCues : Contains(cue, t)
            advanced == \E cue \in AdvancedCues : Contains(cue, t)
        IN call.value.complexity_level =
               (IF basic THEN "basic" ELSE IF advanced THEN "advanced" ELSE "intermediate")

\* an input with a basic cue and an advanced cue: basic
C25_Witness ==
    /\ ExtractDone
    /\ Contains("simple", lower(call.raw))
    /\ Contains("expert", lower(call.raw))
    /\ call.value.complexity_level = "basic"

\* the text shown for each output format and each audience
Shown ==
    << <<"markdown", "Markdown">>, <<"json", "Json">>, <<"list", "List">>,
       <<"paragraph", "Paragraph">>, <<"code", "Code">>, <<"table", "Table">>,
       <<"step-by-step", "Step-By-Step">>,
       <<"beginners", "Beginners">>, <<"intermediate", "Intermediate">>,
       <<"experts", "Experts">>, <<"students", "Students">>,
       <<"professionals", "Professionals">>,
       <<"general_public", "General Public">> >>

\* the lines "1. x", "2. y", ... for the items
Numbered(items) == [i \in 1..Len(items) |-> int_to_str(i) \o ". " \o items[i]]

\* the lines "- x", "- y", ... for the items
Bulleted(items) == [i \in 1..Len(items) |-> "- " \o items[i]]

\* a section: its header line, then its body
Section(header, body) == "# " \o header \o "\n" \o body

\* C26: full_prompt is the sections Role Definition, Context, Instructions,
\* Constraints, Output Format, Quality Criteria, Target Audience, Tone in
\* that order with one blank line between a section and the next; the
\* Context section and StructuredPrompt.context are raw_input verbatim;
\* the instructions are numbered from 1; Output Format and Target Audience
\* are shown title-cased with spaces for underscores; examples is None and
\* there is no Examples section.
C26_FullPrompt ==
    Assembled =>
        LET context == TheContext
            prompt == heap.prompt
            sections ==
                << Section("Role Definition", prompt.role_definition),
                   Section("Context", raw_input),
                   Section("Instructions",
                           join("\n", Numbered(heap.lists[prompt.instructions]))),
                   Section("Constraints",
                           join("\n", Bulleted(heap.lists[prompt.constraints]))),
                   Section("Output Format", dict_get(Shown, context.output_format, None)),
                   Section("Quality Criteria",
                           join("\n", Bulleted(heap.lists[prompt.quality_criteria]))),
                   Section("Target Audience", dict_get(Shown, context.target_audience, None)),
                   Section("Tone", title(context.tone)) >>
        IN /\ prompt.full_prompt = join("\n\n", sections) \o "\n"
           /\ prompt.context = raw_input
           /\ context.raw_input = raw_input
           /\ prompt.examples = None
           /\ ~Contains("# Examples", prompt.full_prompt)
           /\ prompt.output_format = context.output_format

\* a prompt for the code format and the general public, both shown with
\* capitals, with 5 numbered instructions
C26_Witness ==
    /\ Assembled
    /\ TheContext.output_format = "code"
    /\ TheContext.target_audience = "general_public"
    /\ Contains("\n\n# Output Format\nCode\n\n# Quality Criteria\n", heap.prompt.full_prompt)
    /\ Contains("\n# Target Audience\nGeneral Public\n", heap.prompt.full_prompt)
    /\ Contains("\n5. ", heap.prompt.full_prompt)

\* the instruction of each intent other than create
IntentSentence ==
    << <<"analyze", "Conduct a thorough analysis of the subject matter">>,
       <<"explain", "Provide a clear and comprehensive explanation">>,
       <<"improve", "Identify areas for improvement and provide actionable recommendations">>,
       <<"convert", "Transform the content while maintaining core meaning and value">>,
       <<"summarize", "Distill the key points into a concise summary">>,
       <<"compare", "Conduct a detailed comparison highlighting similarities and differences">>,
       <<"plan", "Develop a structured plan with clear steps and milestones">>,
       <<"general_assistance", "Address the user's request comprehensively">> >>

\* a phrase of the instruction of each audience
AudiencePhrase ==
    << <<"beginners", "suitable for beginners">>,
       <<"intermediate", "moderate familiarity">>,
       <<"experts", "appropriate for experts">>,
       <<"students", "learning and retention">>,
       <<"professionals", "professional relevance">>,
       <<"general_public", "a broad audience">> >>

\* a phrase of the instruction of each complexity
ComplexityPhrase ==
    << <<"basic", "simple, digestible components">>,
       <<"advanced", "advanced implications">>,
       <<"intermediate", "Balance depth with accessibility">> >>

\* a phrase of the instruction of each output format
FormatPhrase ==
    << <<"markdown", "markdown syntax">>, <<"json", "valid JSON">>,
       <<"list", "bullet points or numbered lists">>,
       <<"paragraph", "well-structured paragraphs">>,
       <<"code", "well-commented code">>, <<"table", "tabular format">>,
       <<"step-by-step", "sequential, actionable steps">> >>

\* the instructions of the assembled prompt
TheInstructions == heap.lists[heap.prompt.instructions]

\* C27: the instructions are, in order, that of the intent (which names
\* the output format only for the intent create), that of the audience,
\* that of the complexity, that of the output format and, only when there
\* are keywords, a coverage instruction listing the first min(5, number
\* of keywords) keywords; for beginners the second instruction mentions
\* beginners.
C27_InstructionOrder ==
    Assembled =>
        LET context == TheContext
            instructions == TheInstructions
            k == Min({5, Len(context.keywords)})
        IN /\ Len(instructions) = (IF context.keywords = <<>> THEN 4 ELSE 5)
           /\ context.intent = "create" =>
                  instructions[1] = "Create " \o context.output_format
                                    \o " content that addresses the user's request"
           /\ context.intent # "create" =>
                  /\ dict_has(IntentSentence, context.intent)
                  /\ instructions[1] = dict_get(IntentSentence, context.intent, None)
           /\ dict_has(AudiencePhrase, context.target_audience)
           /\ Contains(dict_get(AudiencePhrase, context.target_audience, None), instructions[2])
           /\ context.target_audience = "beginners" => Contains("beginners", instructions[2])
           /\ dict_has(ComplexityPhrase, context.complexity_level)
           /\ Contains(dict_get(ComplexityPhrase, context.complexity_level, None), instructions[3])
           /\ dict_has(FormatPhrase, context.output_format)
           /\ Contains(dict_get(FormatPhrase, context.output_format, None), instructions[4])
           /\ context.keywords # <<>> =>
                  instructions[5] = "Ensure coverage of key topics: "
                                    \o join(", ", SubSeq(context.keywords, 1, k))

\* a prompt for beginners with more than 5 keywords and an intent other
\* than create
C27_Witness ==
    /\ Assembled
    /\ TheContext.target_audience = "beginners"
    /\ TheContext.intent # "create"
    /\ Len(TheContext.keywords) > 5
    /\ Len(TheInstructions) = 5
    /\ Contains("beginners", TheInstructions[2])

\* the start positions in text of the placeholders of the keys of values
placeholder_hits(text, values) ==
    UNION { occurrences_of(text, "{" \o values[i][1] \o "}") : i \in 1..Len(values) }

\* the entry of values whose placeholder starts at position p of text
entry_at(text, values, p) ==
    LET i == CHOOSE i \in 1..Len(values) : p \in occurrences_of(text, "{" \o values[i][1] \o "}")
    IN values[i]

RECURSIVE substituted_from(_, _, _, _)
\* text from position p on, each placeholder of a key of values replaced by
\* the value of the key, the replacements themselves left as they are
substituted_from(text, values, hits, p) ==
    LET rest == { i \in hits : i >= p }
    IN IF rest = {} THEN SubSeq(text, p, Len(text))
       ELSE LET i == Min(rest)
                e == entry_at(text, values, i)
            IN SubSeq(text, p, i - 1) \o e[2]
               \o substituted_from(text, values, hits, i + Len(e[1]) + 2)

\* the one-pass substitution of values into text
substituted(text, values) ==
    substituted_from(text, values, placeholder_hits(text, values), 1)

\* values in the opposite insertion order
reversed(values) == [i \in 1..Len(values) |-> values[Len(values) + 1 - i]]

\* C28: fill_template of a catalog template returns the template text with
\* each occurrence of a supplied placeholder {v} replaced by values[v],
\* text brought in by a value not being substituted again; the result is
\* the same for the opposite insertion order of values; the catalog is
\* left as it was loaded and the same call gives the same string again.
C28_PureSubstitution ==
    (/\ CatalogDone({"fill_template"})
     /\ dict_has(template_library.templates, catalog_call.name)) =>
        LET template == get_template(template_library, catalog_call.name)
        IN /\ catalog_call.raised = None
           /\ catalog_call.result = substituted(template.template, catalog_call.values)
           /\ catalog_call.result =
                  fill_template(template_library, catalog_call.name,
                                reversed(catalog_call.values)).value
           /\ template_library = TemplateLibrary
           /\ catalog_call.result =
                  fill_template(template_library, catalog_call.name, catalog_call.values).value

\* the parts of C28 that hold: the catalog is left as it was loaded, the
\* same call gives the same string again, and when no value holds a brace
\* the result is the one-pass substitution, whatever the insertion order
C28_PureWithoutBraces ==
    (/\ CatalogDone({"fill_template"})
     /\ dict_has(template_library.templates, catalog_call.name)) =>
        LET template == get_template(template_library, catalog_call.name)
            plain == \A i \in 1..Len(catalog_call.values) :
                         ~Contains("{", catalog_call.values[i][2])
        IN /\ catalog_call.raised = None
           /\ template_library = TemplateLibrary
           /\ catalog_call.result =
                  fill_template(template_library, catalog_call.name, catalog_call.values).value
           /\ plain =>
                  /\ catalog_call.result = substituted(template.template, catalog_call.values)
                  /\ catalog_call.result =
                         fill_template(template_library, catalog_call.name,
                                       reversed(catalog_call.values)).value

\* the character c in another letter case: upper, lower, or swapped
recased_char(c, mode) ==
    IF mode = "upper" THEN upper_char(c)
    ELSE IF mode = "lower" THEN lower_char(c)
    ELSE IF c \in UpperSet THEN lower_char(c) ELSE upper_char(c)

RECURSIVE recased_range(_, _, _, _)
\* the characters lo..hi of s re-cased: all upper, all lower, all swapped,
\* or ("odd") swapped at the odd positions only
recased_range(s, lo, hi, mode) ==
    IF lo > hi THEN ""
    ELSE IF lo = hi
    THEN (IF mode = "odd" THEN (IF lo % 2 = 1 THEN recased_char(CharAt(s, lo), "swap")
                                ELSE CharAt(s, lo))
          ELSE recased_char(CharAt(s, lo), mode))
    ELSE LET mid == (lo + hi) \div 2
         IN recased_range(s, lo, mid, mode) \o recased_range(s, mid + 1, hi, mode)

\* strings that differ from s only in the letter case of their characters
CaseVariants(s) ==
    { recased_range(s, 1, Len(s), mode) : mode \in {"upper", "odd"} }

\* two PromptContexts that agree on everything but raw_input
same_but_raw_input(c, d) ==
    /\ c.intent = d.intent
    /\ c.category = d.category
    /\ c.target_audience = d.target_audience
    /\ c.tone = d.tone
    /\ c.output_format = d.output_format
    /\ c.constraints = d.constraints
    /\ c.keywords = d.keywords
    /\ c.complexity_level = d.complexity_level

IsRerun == session'.reruns = session.reruns + 1

\* C30: after the initialization step of each rerun the session's
\* current_llm is the selected target and the session's architect has the
\* profile of that target; the architect is created anew exactly when the
\* session held none or its current_llm differed from the selected target,
\* and is otherwise the one held before.
C30_SessionCache ==
    [][IsRerun =>
          LET selected == session'.target_llm
              recreate == session.architect = Absent \/ session.current_llm # selected
          IN /\ selected \in target_options
             /\ session'.current_llm = selected
             /\ session'.architect # Absent
             /\ dict_has(llm_map, selected)
             /\ session'.architect.target_llm = dict_get(llm_map, selected, None)
             /\ session'.architect = PromptArchitect(session'.architect.target_llm)
             /\ recreate <=> session'.created = session.created + 1
             /\ ~recreate => /\ session'.created = session.created
                             /\ session'.architect = session.architect]_vars

\* after three reruns the session holds its second architect, made for
\* gpt-4o: one rerun created the first, one replaced it, one reused
C30_Witness ==
    /\ session.reruns = 3
    /\ session.created = 2
    /\ session.current_llm = "gpt-4o"
    /\ session.target_llm = "gpt-4o"
    /\ session.architect # Absent
    /\ session.architect.target_llm = "GPT_4O"

=============================================================================
